---- MODULE Spec2Model ----
(***************************************************************************)
(* serde_hash: reversible obfuscation of numeric identifiers.              *)
(*                                                                         *)
(* The model covers                                                        *)
(*   - the global options cell HASH_OPTIONS (a OnceLock) with its two      *)
(*     writers, SerdeHashOptions::build and the lazy default of            *)
(*     get_hash_options, run by concurrent threads;                        *)
(*   - the codec entry points encode / decode / encode_single /            *)
(*     decode_single of serde_hash_impl/src/hashids.rs;                    *)
(*   - the field converters of serde_hash/src/serde_impl.rs;               *)
(*   - the type tests and the two macros (#[serde_hash], derive(HashIds))  *)
(*     of serde_hash_derive/src/lib.rs.                                    *)
(*                                                                         *)
(* Strings are sequences of one-character strings.  encode and decode of   *)
(* hashids.rs delegate to the hash_ids crate (HashIds::encode / decode);   *)
(* the crate is a dependency, and it is modelled here as the published     *)
(* Hashids algorithm, which reproduces the token the repository's test     *)
(* test_basic expects ("qKknODM7Ej" for 158674).                           *)
(***************************************************************************)
EXTENDS Integers, Sequences, FiniteSets, TLC

(***************************************************************************)
(* Characters                                                              *)
(***************************************************************************)

\* Printable ASCII, code 32 (space) first: Ascii[i] has code 31 + i (the double
\* quote, the backslash and the backtick are written by name).
Ascii ==
  << " ", "!", "DQUOTE", "#", "$", "%", "&", "'", "(", ")", "*", "+", ",", "-", ".", "/",
     "0", "1", "2", "3", "4", "5", "6", "7", "8", "9", ":", ";", "<", "=", ">", "?",
     "@", "A", "B", "C", "D", "E", "F", "G", "H", "I", "J", "K", "L", "M", "N", "O",
     "P", "Q", "R", "S", "T", "U", "V", "W", "X", "Y", "Z", "[", "BSLASH", "]", "^", "_",
     "BTICK", "a", "b", "c", "d", "e", "f", "g", "h", "i", "j", "k", "l", "m", "n", "o",
     "p", "q", "r", "s", "t", "u", "v", "w", "x", "y", "z", "{", "|", "}", "~" >>

Range(s) == { s[i] : i \in 1..Len(s) }

\* The code point of a character (char as integer).
OrdTable == [ c \in Range(Ascii) |-> 31 + (CHOOSE i \in 1..Len(Ascii) : Ascii[i] = c) ]

Ord(c) == OrdTable[c]

\* s[a..b) with 0-based bounds, as a Rust slice s[a..b].
Slice(s, a, b) == IF b <= a THEN << >> ELSE SubSeq(s, a + 1, b)

Take(s, n) == Slice(s, 0, IF n < Len(s) THEN n ELSE Len(s))

Drop(s, n) == Slice(s, IF n < Len(s) THEN n ELSE Len(s), Len(s))

Contains(s, c) == \E i \in 1..Len(s) : s[i] = c

\* 0-based position of the first occurrence of c in s (c occurs in s).
Position(s, c) == (CHOOSE i \in 1..Len(s) : s[i] = c /\ \A k \in 1..(i - 1) : s[k] # c) - 1

Filter(s, Keep(_)) == SelectSeq(s, Keep)

\* s without the later occurrences of a repeated character.
Unique(s) ==
  LET first == SelectSeq([ i \in 1..Len(s) |-> i ],
                         LAMBDA i : \A k \in 1..(i - 1) : s[k] # s[i])
  IN  [ j \in 1..Len(first) |-> s[first[j]] ]

(***************************************************************************)
(* Unsigned integers of the machine                                        *)
(*                                                                         *)
(* A u64 is four 16-bit limbs, least significant first; a field value (up  *)
(* to u128) is eight.  The arithmetic below is the arithmetic the codec    *)
(* does on u64: division by a small number, and multiply-and-add with the  *)
(* carry out of bit 63 reported.                                           *)
(***************************************************************************)

Limb == 2^16

U64Zero == << 0, 0, 0, 0 >>

U64Max == << Limb - 1, Limb - 1, Limb - 1, Limb - 1 >>

\* The u64 of a number below 2^31.
U64Of(n) == << n % Limb, n \div Limb, 0, 0 >>

\* n / d and n % d for a u64 n and a divisor 0 < d <= 2^15.
U64DivMod(n, d) ==
  LET c3 == n[4]
      c2 == (c3 % d) * Limb + n[3]
      c1 == (c2 % d) * Limb + n[2]
      c0 == (c1 % d) * Limb + n[1]
  IN  [quot |-> << c0 \div d, c1 \div d, c2 \div d, c3 \div d >>, rem |-> c0 % d]

\* n * m + c for a u64 n and small m, c; carry # 0 when the result needs more
\* than 64 bits.
U64MulAdd(n, m, c) ==
  LET c0 == n[1] * m + c
      c1 == n[2] * m + (c0 \div Limb)
      c2 == n[3] * m + (c1 \div Limb)
      c3 == n[4] * m + (c2 \div Limb)
  IN  [val |-> << c0 % Limb, c1 % Limb, c2 % Limb, c3 % Limb >>, carry |-> c3 \div Limb]

(***************************************************************************)
(* The hash_ids crate: HashIds::builder()...finish(), encode, decode       *)
(***************************************************************************)

DEFAULT_SEPARATORS ==
  << "c", "f", "h", "i", "s", "t", "u", "C", "F", "H", "I", "S", "T", "U" >>

\* One exchange of the salt-driven shuffle: s[i] and s[j] (0-based) change
\* places, j derived from the salt character at idx and the running sum.
ShuffleStep(st, salt, i) ==
  LET n    == Ord(salt[st.idx + 1])
      sum2 == st.sum + n
      j    == (n + st.idx + sum2) % i
  IN  [s   |-> [st.s EXCEPT ![i + 1] = st.s[j + 1], ![j + 1] = st.s[i + 1]],
       idx |-> (st.idx + 1) % Len(salt),
       sum |-> sum2]

\* The exchanges for i = hi, hi - 1, ..., lo in that order (st.sum is never
\* negative: the test only makes the state be computed before the next step).
RECURSIVE ShuffleRange(_, _, _, _)
ShuffleRange(st, salt, hi, lo) ==
  IF hi < lo \/ st.sum < 0 THEN st
  ELSE IF hi = lo THEN ShuffleStep(st, salt, hi)
  ELSE LET mid == (hi + lo) \div 2
       IN  ShuffleRange(ShuffleRange(st, salt, hi, mid + 1), salt, mid, lo)

\* The shuffle: i runs from the last index down to 1.
Shuffle(s, salt) ==
  IF Len(salt) = 0 THEN s
  ELSE ShuffleRange([s |-> s, idx |-> 0, sum |-> 0], salt, Len(s) - 1, 1).s

\* ceil(n / 3.5) and ceil(n / 12)
CeilSeparatorDiv(n) == (2 * n + 6) \div 7

CeilGuardDiv(n) == (n + 11) \div 12

\* finish(), last step: the guards are taken from the separators when fewer
\* than three characters are left in the alphabet, else from the alphabet.
FinishGuards(salt, min_length, alphabet, separators, ng) ==
  IF Len(alphabet) < 3
  THEN [ok |-> TRUE, salt |-> salt, min_length |-> min_length,
        alphabet |-> alphabet, separators |-> Drop(separators, ng),
        guards |-> Take(separators, ng)]
  ELSE [ok |-> TRUE, salt |-> salt, min_length |-> min_length,
        alphabet |-> Drop(alphabet, ng), separators |-> separators,
        guards |-> Take(alphabet, ng)]

\* finish(), after the separators are shuffled: `miss` characters move from
\* the alphabet to the separators, and the alphabet is shuffled.
FinishMove(salt, min_length, alphabet, separators, miss) ==
  FinishGuards(salt, min_length, Shuffle(Drop(alphabet, miss), salt),
               separators \o Take(alphabet, miss),
               CeilGuardDiv(Len(alphabet) - miss))

\* How many separators are missing for an alphabet of na characters and ns
\* separators: the separators are to be at least ceil(na / 3.5).
Missing(na, ns) == IF CeilSeparatorDiv(na) > ns THEN CeilSeparatorDiv(na) - ns ELSE 0

\* finish(), for the alphabet without repeated characters and separators, and
\* the separators the alphabet holds: an error for fewer than 16 characters.
FinishChecked(salt, min_length, alphabet, separators) ==
  IF Len(alphabet) + Len(separators) < 16 \/ Len(alphabet) = 0
  THEN [ok |-> FALSE]
  ELSE FinishMove(salt, min_length, alphabet, Shuffle(separators, salt),
                  Missing(Len(alphabet), Len(separators)))

\* finish(): the separators, guards and working alphabet derived from the
\* options, or an error for an alphabet with a repeated character or of fewer
\* than 16 characters.
HashIdsFinish(salt, min_length, alphabet) ==
  IF Cardinality(Range(alphabet)) # Len(alphabet) THEN [ok |-> FALSE]
  ELSE FinishChecked(salt, min_length,
                     Filter(alphabet, LAMBDA c : ~Contains(DEFAULT_SEPARATORS, c)),
                     Filter(DEFAULT_SEPARATORS, LAMBDA c : Contains(alphabet, c)))

\* One round of the digit loop: while n is not exhausted, its last digit in
\* base Len(alphabet) goes in front of the digits found so far.
HashStep(st, alphabet) ==
  IF st.n = U64Zero /\ st.digits # << >> THEN st
  ELSE LET qr == U64DivMod(st.n, Len(alphabet))
       IN  [n |-> qr.quot, digits |-> << alphabet[qr.rem + 1] >> \o st.digits]

\* k rounds of the digit loop.
RECURSIVE HashRounds(_, _, _)
HashRounds(st, alphabet, k) ==
  IF k <= 0 \/ Len(st.digits) < 0 THEN st
  ELSE IF k = 1 THEN HashStep(st, alphabet)
  ELSE HashRounds(HashRounds(st, alphabet, k \div 2), alphabet, k - (k \div 2))

\* The digits of the u64 n in base Len(alphabet), most significant first (a
\* u64 has at most 64 digits in any base).
HashNumber(n, alphabet) == HashRounds([n |-> n, digits |-> << >>], alphabet, 64).digits

\* One more digit read into the u64 read so far; ok turns FALSE when the number
\* does not fit 64 bits.
UnhashStep(st, alphabet, c) ==
  LET next == U64MulAdd(st.val, Len(alphabet), Position(alphabet, c))
  IN  IF st.ok /\ next.carry = 0 THEN [ok |-> TRUE, val |-> next.val]
      ELSE [ok |-> FALSE, val |-> U64Zero]

\* The digits part[lo..hi] (1-based, inclusive) read from the left.
RECURSIVE UnhashRange(_, _, _, _, _)
UnhashRange(st, part, alphabet, lo, hi) ==
  IF hi < lo \/ ~st.ok THEN st
  ELSE IF hi = lo THEN UnhashStep(st, alphabet, part[lo])
  ELSE LET mid == (hi + lo) \div 2
       IN  UnhashRange(UnhashRange(st, part, alphabet, lo, mid), part, alphabet, mid + 1, hi)

\* The u64 a digit string stands for.
Unhash(part, alphabet) ==
  UnhashRange([ok |-> TRUE, val |-> U64Zero], part, alphabet, 1, Len(part))

\* The sum of vals[i] % (i + 100), i counted from 0.
RECURSIVE ValuesHash(_)
ValuesHash(vals) ==
  IF vals = << >> THEN 0
  ELSE ValuesHash(Slice(vals, 0, Len(vals) - 1))
         + U64DivMod(vals[Len(vals)], Len(vals) - 1 + 100).rem

\* The text with the digits of the i-th value (i counted from 1) and the
\* separator that follows them.
AppendDigits(h, value, i, text, last) ==
  text \o last
    \o << h.separators[(U64DivMod(value, Ord(last[1]) + (i - 1)).rem % Len(h.separators)) + 1] >>

\* The i-th value written with the alphabet reshuffled for it.
EncodeValue(h, value, i, text, alphabet) ==
  [text |-> AppendDigits(h, value, i, text, HashNumber(value, alphabet)),
   alphabet |-> alphabet]

\* The alphabet reshuffled for the next value, by lottery + salt + alphabet.
Reshuffle(h, lottery, alphabet) ==
  Shuffle(alphabet, Take(<< lottery >> \o h.salt \o alphabet, Len(alphabet)))

\* One step per value: reshuffle the alphabet, append the value's digits and
\* a separator.  Returns the text and the alphabet after the last value.
RECURSIVE EncodeValues(_, _, _, _, _)
EncodeValues(h, vals, i, lottery, acc) ==
  IF i > Len(vals) THEN acc
  ELSE EncodeValues(h, vals, i + 1, lottery,
                    EncodeValue(h, vals[i], i, acc.text,
                                Reshuffle(h, lottery, acc.alphabet)))

\* longer, cut to min_length characters around its middle when it is longer.
Trim(longer, min_length) ==
  IF Len(longer) > min_length
  THEN Slice(longer, (Len(longer) - min_length) \div 2,
             (Len(longer) - min_length) \div 2 + min_length)
  ELSE longer

\* Padding up to min_length with reshuffled halves of the alphabet.
RECURSIVE Extend(_, _, _)
RECURSIVE ExtendWith(_, _, _)
Extend(text, alphabet, min_length) ==
  IF Len(text) >= min_length THEN text
  ELSE ExtendWith(text, Shuffle(alphabet, alphabet), min_length)

\* One round of padding, with the alphabet reshuffled for it.
ExtendWith(text, alphabet, min_length) ==
  Extend(Trim(Drop(alphabet, Len(alphabet) \div 2) \o text
                \o Take(alphabet, Len(alphabet) \div 2), min_length),
         alphabet, min_length)

\* The guard picked by the values' hash and the character c.
Guard(h, vhash, c) == h.guards[((vhash + Ord(c)) % Len(h.guards)) + 1]

\* A guard behind the text when it is still too short (the character that
\* picks it is the third of the text).
GuardBehind(h, text, vhash) ==
  IF Len(text) < h.min_length THEN Append(text, Guard(h, vhash, text[3])) ELSE text

\* A text shorter than min_length gets a guard in front, one behind, and padding.
EnsureLength(h, text, alphabet, vhash) ==
  IF Len(text) >= h.min_length THEN text
  ELSE Extend(GuardBehind(h, << Guard(h, vhash, text[1]) >> \o text, vhash),
              alphabet, h.min_length)

\* The text of the values without its last separator, made long enough.
EncodeDone(h, done, vhash) ==
  EnsureLength(h, Slice(done.text, 0, Len(done.text) - 1), done.alphabet, vhash)

\* The encoding with the lottery character the values' hash picks.
EncodeLottery(h, vals, vhash, lottery) ==
  EncodeDone(h, EncodeValues(h, vals, 1, lottery,
                             [text |-> << lottery >>, alphabet |-> h.alphabet]),
             vhash)

EncodeHashed(h, vals, vhash) ==
  EncodeLottery(h, vals, vhash, h.alphabet[(vhash % Len(h.alphabet)) + 1])

\* encode: no text for no values.
HashIdsEncode(h, vals) ==
  IF vals = << >> THEN << >> ELSE EncodeHashed(h, vals, ValuesHash(vals))

\* s cut at every character of splitters.
Split(s, splitters) ==
  LET cuts == SelectSeq([ i \in 1..Len(s) |-> i ], LAMBDA i : Contains(splitters, s[i]))
      from(k) == IF k = 1 THEN 1 ELSE cuts[k - 1] + 1
      to(k)   == IF k = Len(cuts) + 1 THEN Len(s) ELSE cuts[k] - 1
  IN  [ k \in 1..(Len(cuts) + 1) |-> SubSeq(s, from(k), to(k)) ]

\* Every character of the part is one of the alphabet.
InAlphabet(part, alphabet) == \A k \in 1..Len(part) : Contains(alphabet, part[k])

\* The numbers read so far with one more, or with the failure to read it.
WithNumber(vals, n, alphabet) ==
  [ok |-> n.ok, vals |-> Append(vals, n.val), alphabet |-> alphabet]

\* One part read with the alphabet reshuffled for it.
DecodePart(part, vals, alphabet) ==
  IF InAlphabet(part, alphabet)
  THEN WithNumber(vals, Unhash(part, alphabet), alphabet)
  ELSE [ok |-> FALSE, vals |-> vals, alphabet |-> alphabet]

\* One step per part: reshuffle the alphabet as encode did, read the number.
RECURSIVE DecodeParts(_, _, _, _, _)
DecodeParts(h, parts, i, lottery, acc) ==
  IF i > Len(parts) \/ ~acc.ok THEN acc
  ELSE DecodeParts(h, parts, i + 1, lottery,
                   DecodePart(parts[i], acc.vals, Reshuffle(h, lottery, acc.alphabet)))

\* Of the pieces between the guards, the one that holds the numbers.
Body(parts) == IF Len(parts) >= 2 /\ Len(parts) <= 3 THEN parts[2] ELSE parts[1]

Numbers(r) == [ok |-> r.ok, vals |-> r.vals]

\* The numbers of a body: its first character is the lottery, the rest the
\* parts between the separators.
DecodeBody(h, body) ==
  IF body = << >> THEN [ok |-> FALSE, vals |-> << >>]
  ELSE Numbers(DecodeParts(h, Split(Drop(body, 1), h.separators), 1, body[1],
                           [ok |-> TRUE, vals |-> << >>, alphabet |-> h.alphabet]))

\* The numbers read off the text between the guards, before validation.
HashIdsDecodeRaw(h, text) == DecodeBody(h, Body(Split(text, h.guards)))

\* HashIds::decode without its last step: whatever numbers the text reads as.
HashIdsDecode_unverified(h, text) ==
  IF text = << >> THEN [ok |-> TRUE, vals |-> << >>]
  ELSE HashIdsDecodeRaw(h, text)

\* The numbers read are accepted only if they encode back to the very text.
Verified(h, text, raw) ==
  IF raw.ok /\ HashIdsEncode(h, raw.vals) = text THEN raw
  ELSE [ok |-> FALSE, vals |-> << >>]

\* decode: no numbers for no text; else the numbers read off the text, verified.
HashIdsDecode(h, text) ==
  IF text = << >> THEN [ok |-> TRUE, vals |-> << >>]
  ELSE Verified(h, text, HashIdsDecodeRaw(h, text))

(***************************************************************************)
(* hashids.rs: SerdeHashOptions, HASH_OPTIONS, the codec entry points      *)
(***************************************************************************)

\* The alphabet of SerdeHashOptions::default.
DefaultAlphabet ==
  << "a", "b", "c", "d", "e", "f", "g", "h", "i", "j", "k", "l", "m",
     "n", "o", "p", "q", "r", "s", "t", "u", "v", "w", "x", "y", "z",
     "A", "B", "C", "D", "E", "F", "G", "H", "I", "J", "K", "L", "M",
     "N", "O", "P", "Q", "R", "S", "T", "U", "V", "W", "X", "Y", "Z",
     "1", "2", "3", "4", "5", "6", "7", "8", "9", "0" >>

DefaultMinLength == 8

SaltLength == 32

\* Two of the strings generate_salt can return: 32 alphanumeric characters.
GeneratedSalts ==
  { << "a", "1", "B", "2", "c", "3", "D", "4", "e", "5", "F", "6", "g", "7", "H", "8",
       "i", "9", "J", "0", "k", "1", "L", "2", "m", "3", "N", "4", "o", "5", "P", "6" >>,
    << "Z", "z", "Y", "y", "X", "x", "W", "w", "V", "v", "U", "u", "T", "t", "S", "s",
       "R", "r", "Q", "q", "P", "p", "O", "o", "N", "n", "M", "m", "L", "l", "K", "k" >> }

\* generate_salt(): any string of SaltLength alphanumeric characters; the
\* model draws from GeneratedSalts.
generate_salt == { salt \in GeneratedSalts : Len(salt) = SaltLength }

SerdeHashOptions(salt, min_length, alphabet) ==
  [salt |-> salt, min_length |-> min_length, alphabet |-> alphabet]

\* impl Default for SerdeHashOptions, for the salt generate_salt returned.
SerdeHashOptionsDefault(salt) == SerdeHashOptions(salt, DefaultMinLength, DefaultAlphabet)

\* The results of a call.
Ok(v) == [kind |-> "ok", val |-> << v >>]

Err == [kind |-> "err", val |-> << >>]

Panic == [kind |-> "panic", val |-> << >>]

Unit == [kind |-> "unit", val |-> << >>]

NoResult == [kind |-> "none", val |-> << >>]

\* hashids() without with_alphabet: the builder keeps its own alphabet.
hashids_default_alphabet(options) ==
  HashIdsFinish(options.salt, options.min_length, DefaultAlphabet)

\* hashids() without with_salt: the builder keeps its empty salt.
hashids_unsalted(options) == HashIdsFinish(<< >>, options.min_length, options.alphabet)

\* hashids(): the HashIds built from the options; finish().unwrap() panics
\* when the builder refuses the alphabet.
hashids(options) == HashIdsFinish(options.salt, options.min_length, options.alphabet)

\* encode with the HashIds built: finish().unwrap() has panicked when the
\* builder refused.
EncodeWith(hash_ids, data) ==
  IF ~hash_ids.ok THEN Panic ELSE Ok(HashIdsEncode(hash_ids, data))

\* encode that hands the codec the first number only (&data[..1]).
encode_first(options, data) == EncodeWith(hashids(options), SubSeq(data, 1, 1))

\* encode(data) under the options get_hash_options returned.
encode(options, data) == EncodeWith(hashids(options), data)

\* `?` on the result of HashIds::decode: the numbers, or the error passed on.
Try(d) == IF d.ok THEN Ok(d.vals) ELSE Err

\* unwrap_or_default() in place of `?`.
OrDefault(d) == IF d.ok THEN Ok(d.vals) ELSE Ok(<< >>)

\* decode that passes the builder's refusal on as its own error (finish()? in
\* place of finish().unwrap()).
DecodeWith_checked(hash_ids, hash) ==
  IF ~hash_ids.ok THEN Err ELSE Try(HashIdsDecode(hash_ids, hash))

\* decode with the HashIds built, or the panic of finish().unwrap().
DecodeWith(hash_ids, hash) ==
  IF ~hash_ids.ok THEN Panic ELSE Try(HashIdsDecode(hash_ids, hash))

DecodeWithDefault(hash_ids, hash) ==
  IF ~hash_ids.ok THEN Panic ELSE OrDefault(HashIdsDecode(hash_ids, hash))

\* decode with unwrap_or_default() in place of `?`: no numbers for a text
\* the codec refuses.
decode_lossy(options, hash) == DecodeWithDefault(hashids(options), hash)

\* decode(hash): the error of HashIds::decode is passed on by `?`.
decode(options, hash) == DecodeWith(hashids(options), hash)

\* The single number of a decoded sequence: an error unless it holds exactly
\* one (a panic or an error of decode is passed on).
Single(d) ==
  IF d.kind # "ok" THEN d
  ELSE IF Len(d.val[1]) # 1 THEN Err
  ELSE Ok(d.val[1][1])

\* The length test turned around.
SingleInverted(d) ==
  IF d.kind # "ok" THEN d
  ELSE IF Len(d.val[1]) = 1 THEN Err
  ELSE Ok(IF d.val[1] = << >> THEN U64Zero ELSE d.val[1][1])

\* decode_single with the length test turned around.
decode_single_inverted(options, hash) == SingleInverted(decode(options, hash))

\* The first number of a decoded sequence, however many follow it.
First(d) ==
  IF d.kind # "ok" THEN d
  ELSE IF d.val[1] = << >> THEN Err
  ELSE Ok(d.val[1][1])

\* decode_single that tests for no value only (decode.is_empty()).
decode_single_first(options, hash) == First(decode(options, hash))

\* decode_single(hash): an error unless exactly one value was decoded.
decode_single(options, hash) == Single(decode(options, hash))

\* encode_single(data) == encode(&[data])
encode_single(options, data) == encode(options, << data >>)

(***************************************************************************)
(* serde_impl.rs: HashNumeric and the four `with` modules                  *)
(*                                                                         *)
(* A field value is a u128 of eight limbs (every narrower type widens into *)
(* it without loss); Option is a sequence of length 0 or 1.  A wire value  *)
(* is what the host framework writes and reads: a string, a sequence, null *)
(* or a bare number.                                                       *)
(***************************************************************************)

Widths == { "u8", "u16", "u32", "u64", "u128", "usize" }

\* A u64 as a field value.
Widen(v) == v \o U64Zero

\* to_u64: `self as u64` keeps the low 64 bits.
to_u64(width, value) == SubSeq(value, 1, 4)

\* from_u64: `v as Self` keeps the low bits of the target width (usize is 64
\* bits wide, as on the 64-bit targets).
from_u64(width, v) ==
  CASE width = "u8"  -> Widen(<< v[1] % 256, 0, 0, 0 >>)
    [] width = "u16" -> Widen(<< v[1], 0, 0, 0 >>)
    [] width = "u32" -> Widen(<< v[1], v[2], 0, 0 >>)
    [] OTHER         -> Widen(v)

\* A wire value: a string (text), a sequence (items), null, or a number (num).
WStr(text) == [kind |-> "str", text |-> text, items |-> << >>, num |-> 0]

WSeq(items) == [kind |-> "seq", text |-> << >>, items |-> items, num |-> 0]

WNull == [kind |-> "null", text |-> << >>, items |-> << >>, num |-> 0]

WNum(n) == [kind |-> "num", text |-> << >>, items |-> << >>, num |-> n]

\* The results of the calls a converter makes one after the other: the first
\* failure (panic or error) if there is one, else the values in order.
RECURSIVE Collect(_, _)
Collect(results, acc) ==
  IF results = << >> THEN Ok(acc)
  ELSE IF Head(results).kind # "ok" THEN Head(results)
  ELSE Collect(Tail(results), Append(acc, Head(results).val[1]))

\* serializer.serialize_str(&encoded)
SerializeStr(encoded) ==
  IF encoded.kind # "ok" THEN encoded ELSE Ok(WStr(encoded.val[1]))

\* numeric::serialize
numeric_serialize(options, width, value) ==
  SerializeStr(encode_single(options, to_u64(width, value)))

\* Ok(T::from_u64(decoded)), or the error of decode_single passed on by `?`.
FromDecoded(width, decoded) ==
  IF decoded.kind # "ok" THEN decoded ELSE Ok(from_u64(width, decoded.val[1]))

\* numeric::deserialize that also takes a bare number as the field's value.
numeric_deserialize_any(options, width, wire) ==
  IF wire.kind = "num" THEN Ok(from_u64(width, U64Of(wire.num)))
  ELSE IF wire.kind # "str" THEN Err
  ELSE FromDecoded(width, decode_single(options, wire.text))

\* numeric::deserialize: String::deserialize, decode_single, from_u64.
numeric_deserialize(options, width, wire) ==
  IF wire.kind # "str" THEN Err
  ELSE FromDecoded(width, decode_single(options, wire.text))

\* encoded.serialize(serializer) for the Vec<String> of tokens.
SerializeSeq(encoded) ==
  IF encoded.kind # "ok" THEN encoded
  ELSE Ok(WSeq([ i \in 1..Len(encoded.val[1]) |-> WStr(encoded.val[1][i]) ]))

\* vec_numeric::serialize
vec_numeric_serialize(options, width, value) ==
  SerializeSeq(Collect([ i \in 1..Len(value) |->
                           encode_single(options, to_u64(width, value[i])) ], << >>))

\* The decoded numbers, each through from_u64.
FromDecodedSeq(width, decoded) ==
  IF decoded.kind # "ok" THEN decoded
  ELSE Ok([ i \in 1..Len(decoded.val[1]) |-> from_u64(width, decoded.val[1][i]) ])

\* vec_numeric::deserialize that leaves out the strings decode_single refuses
\* (filter_map in place of map and collect into a Result).
vec_numeric_deserialize_skipping(options, width, wire) ==
  IF wire.kind # "seq" \/ \E i \in 1..Len(wire.items) : wire.items[i].kind # "str" THEN Err
  ELSE FromDecodedSeq(width,
         Collect(SelectSeq([ i \in 1..Len(wire.items) |->
                              decode_single(options, wire.items[i].text) ],
                           LAMBDA r : r.kind # "err"),
                 << >>))

\* vec_numeric::deserialize: Vec::<String>::deserialize, then decode_single and
\* from_u64 element by element, stopping at the first error.
vec_numeric_deserialize(options, width, wire) ==
  IF wire.kind # "seq" \/ \E i \in 1..Len(wire.items) : wire.items[i].kind # "str" THEN Err
  ELSE FromDecodedSeq(width, Collect([ i \in 1..Len(wire.items) |->
                                         decode_single(options, wire.items[i].text) ],
                                     << >>))

\* option_numeric::serialize
option_numeric_serialize(options, width, value) ==
  IF value = << >> THEN Ok(WNull) ELSE numeric_serialize(options, width, value[1])

\* Some(value) around the value read, or the error passed on.
SomeOf(r) == IF r.kind # "ok" THEN r ELSE Ok(<< r.val[1] >>)

\* option_numeric::deserialize
option_numeric_deserialize(options, width, wire) ==
  IF wire.kind = "null" THEN Ok(<< >>)
  ELSE SomeOf(numeric_deserialize(options, width, wire))

\* option_vec_numeric::serialize
option_vec_numeric_serialize(options, width, value) ==
  IF value = << >> THEN Ok(WNull) ELSE vec_numeric_serialize(options, width, value[1])

\* option_vec_numeric::deserialize
option_vec_numeric_deserialize(options, width, wire) ==
  IF wire.kind = "null" THEN Ok(<< >>)
  ELSE SomeOf(vec_numeric_deserialize(options, width, wire))

Shapes == { "numeric", "vec", "option", "option_vec" }

\* The converter the field's `with` attribute names, by the field's shape.
serialize(options, ty, value) ==
  CASE ty.shape = "numeric"    -> numeric_serialize(options, ty.width, value)
    [] ty.shape = "vec"        -> vec_numeric_serialize(options, ty.width, value)
    [] ty.shape = "option"     -> option_numeric_serialize(options, ty.width, value)
    [] ty.shape = "option_vec" -> option_vec_numeric_serialize(options, ty.width, value)

deserialize(options, ty, wire) ==
  CASE ty.shape = "numeric"    -> numeric_deserialize(options, ty.width, wire)
    [] ty.shape = "vec"        -> vec_numeric_deserialize(options, ty.width, wire)
    [] ty.shape = "option"     -> option_numeric_deserialize(options, ty.width, wire)
    [] ty.shape = "option_vec" -> option_vec_numeric_deserialize(options, ty.width, wire)

\* The numbers a converter hands to encode_single, in order.
NumbersOf(ty, value) ==
  CASE ty.shape = "numeric"    -> << value >>
    [] ty.shape = "vec"        -> value
    [] ty.shape = "option"     -> value
    [] ty.shape = "option_vec" -> IF value = << >> THEN << >> ELSE value[1]

\* The strings a converter hands to decode_single, in order (none when the
\* wire value is not of the form the converter reads).
StringsOf(ty, wire) ==
  IF ty.shape \in { "numeric", "option" }
  THEN IF wire.kind = "str" THEN << wire.text >> ELSE << >>
  ELSE IF wire.kind = "seq" /\ \A i \in 1..Len(wire.items) : wire.items[i].kind = "str"
       THEN [ i \in 1..Len(wire.items) |-> wire.items[i].text ]
       ELSE << >>

(***************************************************************************)
(* serde_hash_derive/lib.rs: the type tests and the two macros             *)
(*                                                                         *)
(* A type is what syn parses it to: a path (with or without a qualified    *)
(* self, its segments, each with its generic arguments), or something else *)
(* (a reference, a tuple, a parenthesized type).  An attribute has a path  *)
(* and, when its arguments parse as a comma-separated list of metas, the   *)
(* metas.                                                                  *)
(***************************************************************************)

NoType == [kind |-> "none", qself |-> FALSE, segments |-> << >>, elems |-> << >>]

\* Type::Path
TypePath(qself, segments) ==
  [kind |-> "path", qself |-> qself, segments |-> segments, elems |-> << >>]

\* Any other Type: Type::Reference, Type::Tuple, Type::Paren, ...
TypeOther(kind, elems) ==
  [kind |-> kind, qself |-> FALSE, segments |-> << >>, elems |-> elems]

\* A PathSegment: arguments is "none", "angle" (<...>) or "paren" ((...)).
Segment(ident, arguments, args) == [ident |-> ident, arguments |-> arguments, args |-> args]

\* GenericArgument::Type, and the arguments that are not types.
TypeArg(ty) == [kind |-> "type", ty |-> ty]

OtherArg(kind) == [kind |-> kind, ty |-> NoType]

\* is_numeric_type accepting the last segment of any path.
is_numeric_type_last_segment(ty) ==
  IF ty.kind = "path"
  THEN IF Len(ty.segments) >= 1
       THEN ty.segments[Len(ty.segments)].ident \in { "u8", "u16", "u32", "u64", "u128", "usize" }
       ELSE FALSE
  ELSE FALSE

is_numeric_type(ty) ==
  IF ty.kind = "path"
  THEN IF ~ty.qself /\ Len(ty.segments) = 1
       THEN ty.segments[1].ident \in { "u8", "u16", "u32", "u64", "u128", "usize" }
       ELSE FALSE
  ELSE FALSE

is_vector_of_numeric(ty) ==
  /\ ty.kind = "path"
  /\ ~ty.qself /\ Len(ty.segments) = 1
  /\ ty.segments[1].ident = "Vec"
  /\ ty.segments[1].arguments = "angle"
  /\ Len(ty.segments[1].args) = 1
  /\ ty.segments[1].args[1].kind = "type"
  /\ is_numeric_type(ty.segments[1].args[1].ty)

is_option_of_numeric(ty) ==
  /\ ty.kind = "path"
  /\ ~ty.qself /\ Len(ty.segments) = 1
  /\ ty.segments[1].ident = "Option"
  /\ ty.segments[1].arguments = "angle"
  /\ Len(ty.segments[1].args) = 1
  /\ ty.segments[1].args[1].kind = "type"
  /\ is_numeric_type(ty.segments[1].args[1].ty)

is_option_of_vector_of_numeric(ty) ==
  /\ ty.kind = "path"
  /\ ~ty.qself /\ Len(ty.segments) = 1
  /\ ty.segments[1].ident = "Option"
  /\ ty.segments[1].arguments = "angle"
  /\ Len(ty.segments[1].args) = 1
  /\ ty.segments[1].args[1].kind = "type"
  /\ is_vector_of_numeric(ty.segments[1].args[1].ty)

\* determine_with_path: Some(path) is << path >>, None is << >>.
determine_with_path(ty) ==
  IF is_numeric_type(ty) THEN << "serde_hash::serde_impl::numeric" >>
  ELSE IF is_vector_of_numeric(ty) THEN << "serde_hash::serde_impl::vec_numeric" >>
  ELSE IF is_option_of_numeric(ty) THEN << "serde_hash::serde_impl::option_numeric" >>
  ELSE IF is_option_of_vector_of_numeric(ty)
       THEN << "serde_hash::serde_impl::option_vec_numeric" >>
  ELSE << >>

\* A Meta: Meta::Path (kind "path"), Meta::NameValue, Meta::List.
Meta(kind, path, value) == [kind |-> kind, path |-> path, value |-> value]

\* An Attribute: its path, whether parse_args_with(Punctuated::<Meta, Token![,]>)
\* succeeds on it, and the metas it then yields.
Attribute(path, parses, metas) == [path |-> path, parses |-> parses, metas |-> metas]

\* A Field of a struct with named fields.
Field(ident, attrs, ty) == [ident |-> ident, attrs |-> attrs, ty |-> ty]

\* A DeriveInput: data is "struct", "enum" or "union"; fields_kind is "named",
\* "unnamed" or "unit".
DeriveInput(ident, data, fields_kind, fields) ==
  [ident |-> ident, data |-> data, fields_kind |-> fields_kind, fields |-> fields]

\* matches!(m, Meta::Path(p) if p.is_ident("hash"))
IsHashMeta(m) == m.kind = "path" /\ m.path = "hash"

\* metas.iter().any(...)
HasHash(metas) == \E i \in 1..Len(metas) : IsHashMeta(metas[i])

\* The metas that are not `hash`, in their order.
Remaining(metas) == SelectSeq(metas, LAMBDA m : ~IsHashMeta(m))

\* parse_quote!(#[serde(#(#remaining),*)])
SerdeAttribute(metas) == Attribute("serde", TRUE, metas)

\* parse_quote!(#[serde(with = #path)])
WithAttribute(path) == SerdeAttribute(<< Meta("name_value", "with", path) >>)

\* A compile error: where it is reported (the span: a type, an identifier, or
\* the macro's call site), the field its message names, and the tokens of
\* which the message holds the text.
SpannedError(at, span_ty, span_ident, field, tokens) ==
  [at |-> at, span_ty |-> span_ty, span_ident |-> span_ident, field |-> field,
   tokens |-> tokens]

\* The token stream of compile errors a macro returns in place of its output.
CompileError(errors) == [kind |-> "compile_error", val |-> errors]

\* The state of the loop over a field's attributes.
AttrState(needs_hash, new_attrs) == [needs_hash |-> needs_hash, new_attrs |-> new_attrs]

\* A #[serde(...)] with `hash` inside: the attribute is rebuilt without it, or
\* dropped when nothing else is inside.
RebuiltSerde(st, remaining) ==
  AttrState(TRUE, IF remaining = << >> THEN st.new_attrs
                  ELSE Append(st.new_attrs, SerdeAttribute(remaining)))

\* The loop body with a #[serde(hash, ...)] dropped whole.
AttrStep_drop_serde(st, attr) ==
  IF attr.path = "hash" THEN AttrState(TRUE, st.new_attrs)
  ELSE IF attr.path = "serde" /\ attr.parses /\ HasHash(attr.metas)
       THEN AttrState(TRUE, st.new_attrs)
  ELSE AttrState(st.needs_hash, Append(st.new_attrs, attr))

\* One round of `for attr in &field.attrs`.
AttrStep(st, attr) ==
  IF attr.path = "hash" THEN AttrState(TRUE, st.new_attrs)
  ELSE IF attr.path = "serde" /\ attr.parses /\ HasHash(attr.metas)
       THEN RebuiltSerde(st, Remaining(attr.metas))
  ELSE AttrState(st.needs_hash, Append(st.new_attrs, attr))

\* `for attr in &field.attrs`, from the i-th attribute on.
RECURSIVE AttrLoop(_, _, _)
AttrLoop(st, attrs, i) ==
  IF i > Len(attrs) THEN st ELSE AttrLoop(AttrStep(st, attrs[i]), attrs, i + 1)

\* The error of serde_hash for a hash-marked field of an unsupported type:
\* reported at the field's type, with the field's name in the message.
UnsupportedType(field) == SpannedError("type", field.ty, "", field.ident, << >>)

\* The field with its new attributes and the converter's attribute behind
\* them, or the error when there is no converter for its type.
WithConverter(field, new_attrs, path) ==
  IF path = << >> THEN [ok |-> FALSE, field |-> field, error |-> << UnsupportedType(field) >>]
  ELSE [ok |-> TRUE, field |-> [field EXCEPT !.attrs = Append(new_attrs, WithAttribute(path[1]))],
        error |-> << >>]

\* The end of a round of the field loop that looks for a converter whether or
\* not the field is marked, and keeps the field when there is none.
Rewritten_unmarked(field, st) ==
  IF determine_with_path(field.ty) # << >>
  THEN WithConverter(field, st.new_attrs, determine_with_path(field.ty))
  ELSE [ok |-> TRUE, field |-> [field EXCEPT !.attrs = st.new_attrs], error |-> << >>]

\* The end of a round of the field loop that keeps a marked field of an
\* unsupported type as it is.
Rewritten_lenient(field, st) ==
  IF st.needs_hash /\ determine_with_path(field.ty) # << >>
  THEN WithConverter(field, st.new_attrs, determine_with_path(field.ty))
  ELSE [ok |-> TRUE, field |-> [field EXCEPT !.attrs = st.new_attrs], error |-> << >>]

\* The end of a round of the field loop: `if needs_hash { ... }` and
\* `field.attrs = new_attrs`.
Rewritten(field, st) ==
  IF st.needs_hash THEN WithConverter(field, st.new_attrs, determine_with_path(field.ty))
  ELSE [ok |-> TRUE, field |-> [field EXCEPT !.attrs = st.new_attrs], error |-> << >>]

\* One round of `for field in fields.iter_mut()`.
FieldStep(field) == Rewritten(field, AttrLoop(AttrState(FALSE, << >>), field.attrs, 1))

\* The rounds done so far with one more: the loop returns at the first error.
FieldDone(done, r) ==
  IF r.ok THEN [ok |-> TRUE, fields |-> Append(done.fields, r.field), error |-> << >>]
  ELSE [ok |-> FALSE, fields |-> done.fields, error |-> r.error]

\* `for field in fields.iter_mut()`, from the i-th field on.
RECURSIVE FieldLoop(_, _, _)
FieldLoop(input, done, i) ==
  IF ~done.ok \/ i > Len(input.fields) THEN done
  ELSE FieldLoop(input, FieldDone(done, FieldStep(input.fields[i])), i + 1)

\* quote!(#input), or the first error.
Expanded(input, done) ==
  IF done.ok THEN Ok([input EXCEPT !.fields = done.fields])
  ELSE CompileError(done.error)

\* #[serde_hash] on an item.
serde_hash(input) ==
  IF input.data # "struct" \/ input.fields_kind # "named"
  THEN CompileError(<< SpannedError("ident", NoType, input.ident, "", << >>) >>)
  ELSE Expanded(input, FieldLoop(input, [ok |-> TRUE, fields |-> << >>, error |-> << >>], 1))

\* field.attrs.iter().any(|attr| attr.path().is_ident("hash"))
has_hash(field) == \E i \in 1..Len(field.attrs) : field.attrs[i].path = "hash"

\* The fields hash_id_derive looks at: those of a struct with named fields.
NamedFields(input) ==
  IF input.data = "struct" /\ input.fields_kind = "named" THEN input.fields ELSE << >>

\* The compile_error! of hash_id_derive for a field: its message holds the
\* field's name and the text of the tokens `#field.ty`, which are the whole
\* field followed by `.ty`.
DeriveError(field) == SpannedError("call_site", NoType, "", field.ident, << field >>)

DeriveErrors(fields) == [ i \in 1..Len(fields) |-> DeriveError(fields[i]) ]

\* The validation loop of hash_id_derive: one error per #[hash] field whose
\* type is none of the four shapes.
errors(input) ==
  DeriveErrors(SelectSeq(NamedFields(input),
                         LAMBDA f : /\ has_hash(f)
                                    /\ ~is_numeric_type(f.ty)
                                    /\ ~is_vector_of_numeric(f.ty)
                                    /\ ~is_option_of_numeric(f.ty)
                                    /\ ~is_option_of_vector_of_numeric(f.ty)))

\* The names of the fields, in the order of the struct.
Idents(fields) == [ i \in 1..Len(fields) |-> fields[i].ident ]

\* The impls of Serialize and Deserialize hash_id_derive writes: which fields
\* go through encode_single and decode_single (one by one, element by element,
\* when present), and which are written and read as they are.
Impls(input, fields) ==
  [name |-> input.ident,
   numeric_hash_fields |-> Idents(SelectSeq(fields, LAMBDA f : has_hash(f) /\ is_numeric_type(f.ty))),
   vector_hash_fields |-> Idents(SelectSeq(fields, LAMBDA f : has_hash(f) /\ is_vector_of_numeric(f.ty))),
   option_numeric_hash_fields |->
     Idents(SelectSeq(fields, LAMBDA f : has_hash(f) /\ is_option_of_numeric(f.ty))),
   option_vector_hash_fields |->
     Idents(SelectSeq(fields, LAMBDA f : has_hash(f) /\ is_option_of_vector_of_numeric(f.ty))),
   non_hash_fields |-> Idents(SelectSeq(fields, LAMBDA f : ~has_hash(f))),
   field_count |-> Len(fields)]

\* The errors alone when there are any, else the impls.
ErrorsOr(errs, input) ==
  IF errs # << >> THEN CompileError(errs)
  ELSE Ok(Impls(input, NamedFields(input)))

\* #[derive(HashIds)] on an item.
hash_id_derive(input) == ErrorsOr(errors(input), input)

(***************************************************************************)
(* serde_hash_derive/lib.rs: the impls derive(HashIds) writes, at run time *)
(*                                                                         *)
(* A value of the struct is the sequence of its fields' values in the      *)
(* order of the struct (a field without #[hash] holds the wire value serde *)
(* writes for it); a map on the wire is a sequence of entries, in the      *)
(* order they are read.                                                    *)
(***************************************************************************)

Entry(key, value) == [key |-> key, value |-> value]

\* The numeric type behind the field's type: T of T, Vec<T>, Option<T> and
\* Option<Vec<T>>, which `as u64` converts from and `as _` converts to.
RECURSIVE NumericOf(_)
NumericOf(ty) ==
  IF ty.segments[1].args = << >> THEN ty.segments[1].ident
  ELSE NumericOf(ty.segments[1].args[1].ty)

\* The list of the impls the name is in, which is the arm of
\* `match key.as_str()` it selects: `_` for a name in none.
Arm(impls, name) ==
  CASE Contains(impls.numeric_hash_fields, name)        -> "numeric"
    [] Contains(impls.vector_hash_fields, name)         -> "vec"
    [] Contains(impls.option_numeric_hash_fields, name) -> "option"
    [] Contains(impls.option_vector_hash_fields, name)  -> "option_vec"
    [] Contains(impls.non_hash_fields, name)            -> "plain"
    [] OTHER                                            -> "ignored"

\* A field as the impls handle it: its name, its arm, its numeric type and its
\* place in the struct.
FieldSlot(input, impls, name) ==
  [ident |-> name, arm |-> Arm(impls, name),
   of    |-> NumericOf(input.fields[Position(Idents(input.fields), name) + 1].ty),
   index |-> Position(Idents(input.fields), name) + 1]

\* The fields in the order the impls go through them: the four lists of
\* hash-marked fields, then the fields without a marker.
Slots(input, impls) ==
  [ k \in 1..impls.field_count |->
      FieldSlot(input, impls,
                (impls.numeric_hash_fields \o impls.vector_hash_fields
                   \o impls.option_numeric_hash_fields \o impls.option_vector_hash_fields
                   \o impls.non_hash_fields)[k]) ]

\* serialize_field with the empty string in place of None.
serialize_field_empty(options, slot, value) ==
  CASE slot.arm = "numeric" ->
         SerializeStr(encode_single(options, to_u64(slot.of, value)))
    [] slot.arm = "vec" ->
         SerializeSeq(Collect([ i \in 1..Len(value) |->
                                  encode_single(options, to_u64(slot.of, value[i])) ], << >>))
    [] slot.arm = "option" ->
         IF value # << >> THEN SerializeStr(encode_single(options, to_u64(slot.of, value[1])))
         ELSE Ok(WStr(<< >>))
    [] slot.arm = "option_vec" ->
         IF value # << >>
         THEN SerializeSeq(Collect([ i \in 1..Len(value[1]) |->
                                       encode_single(options, to_u64(slot.of, value[1][i])) ],
                                   << >>))
         ELSE Ok(WStr(<< >>))
    [] slot.arm = "plain" -> Ok(value)

\* The value s.serialize_field is called with for a field, by the field's
\* arm of the generated serialize: the token, the Vec of tokens pushed one by
\* one, Some of them or None, or the field itself.
serialize_field(options, slot, value) ==
  CASE slot.arm = "numeric" ->
         SerializeStr(encode_single(options, to_u64(slot.of, value)))
    [] slot.arm = "vec" ->
         SerializeSeq(Collect([ i \in 1..Len(value) |->
                                  encode_single(options, to_u64(slot.of, value[i])) ], << >>))
    [] slot.arm = "option" ->
         IF value # << >> THEN SerializeStr(encode_single(options, to_u64(slot.of, value[1])))
         ELSE Ok(WNull)
    [] slot.arm = "option_vec" ->
         IF value # << >>
         THEN SerializeSeq(Collect([ i \in 1..Len(value[1]) |->
                                       encode_single(options, to_u64(slot.of, value[1][i])) ],
                                   << >>))
         ELSE Ok(WNull)
    [] slot.arm = "plain" -> Ok(value)

\* s.end(): the struct written, its entries in the order of the calls of
\* serialize_field (or the panic of an encode_single).
SerializeStruct(impls, slots, written) ==
  IF written.kind # "ok" THEN written
  ELSE Ok([name |-> impls.name, len |-> impls.field_count,
           entries |-> [ k \in 1..Len(slots) |-> Entry(slots[k].ident, written.val[1][k]) ]])

\* The generated Serialize::serialize.
Serialize_serialize(options, impls, slots, record) ==
  SerializeStruct(impls, slots,
                  Collect([ k \in 1..Len(slots) |->
                              serialize_field(options, slots[k], record[slots[k].index]) ],
                          << >>))

\* map.next_value() for a field without a marker: a string for a String, a
\* number for a numeric type.
NextValue(of, wire) ==
  IF wire.kind = (IF of = "String" THEN "str" ELSE "num") THEN Ok(wire) ELSE Err

\* The arm of `match key.as_str()` for a field: next_value of the type the arm
\* reads, decode_single of each string, `as _`.
deserialize_arm(options, slot, wire) ==
  CASE slot.arm = "numeric" ->
         IF wire.kind # "str" THEN Err
         ELSE FromDecoded(slot.of, decode_single(options, wire.text))
    [] slot.arm = "vec" ->
         IF wire.kind # "seq" \/ \E i \in 1..Len(wire.items) : wire.items[i].kind # "str"
         THEN Err
         ELSE FromDecodedSeq(slot.of, Collect([ i \in 1..Len(wire.items) |->
                                                  decode_single(options, wire.items[i].text) ],
                                              << >>))
    [] slot.arm = "option" ->
         IF wire.kind = "null" THEN Ok(<< >>)
         ELSE IF wire.kind # "str" THEN Err
         ELSE SomeOf(FromDecoded(slot.of, decode_single(options, wire.text)))
    [] slot.arm = "option_vec" ->
         IF wire.kind = "null" THEN Ok(<< >>)
         ELSE IF wire.kind # "seq" \/ \E i \in 1..Len(wire.items) : wire.items[i].kind # "str"
         THEN Err
         ELSE SomeOf(FromDecodedSeq(slot.of,
                                    Collect([ i \in 1..Len(wire.items) |->
                                                decode_single(options, wire.items[i].text) ],
                                            << >>)))
    [] slot.arm = "plain" -> NextValue(slot.of, wire)

\* de::Error::missing_field(name), and the error serde's own derive has for a
\* key that comes twice.
MissingField(name) == [kind |-> "err", val |-> << "missing_field", name >>]

DuplicateField(name) == [kind |-> "err", val |-> << "duplicate_field", name >>]

\* The variables of visit_map: one Option per field, None at first; failed
\* holds the error (or panic) that ended the loop.
Visiting(stored, failed) == [stored |-> stored, failed |-> failed]

\* The arm's result put into the field's variable, or the error passed on by
\* `?`.
Stored(st, slot, r) ==
  IF r.kind # "ok" THEN Visiting(st.stored, << r >>)
  ELSE Visiting([st.stored EXCEPT ![slot.index] = << r.val[1] >>], << >>)

\* A loop body that refuses a key whose variable is already set.
VisitEntry_unique(options, slots, st, e) ==
  IF \A k \in 1..Len(slots) : slots[k].ident # e.key THEN st
  ELSE IF st.stored[(CHOOSE k \in 1..Len(slots) : slots[k].ident = e.key)] # << >>
       THEN Visiting(st.stored, << DuplicateField(e.key) >>)
  ELSE Stored(st, slots[CHOOSE k \in 1..Len(slots) : slots[k].ident = e.key],
              deserialize_arm(options, slots[CHOOSE k \in 1..Len(slots) : slots[k].ident = e.key],
                              e.value))

\* One round of `while let Some(key) = map.next_key()?`: the arm of the key,
\* or `_`, which reads the value as IgnoredAny.
VisitEntry(options, slots, st, e) ==
  IF \A k \in 1..Len(slots) : slots[k].ident # e.key THEN st
  ELSE Stored(st, slots[CHOOSE k \in 1..Len(slots) : slots[k].ident = e.key],
              deserialize_arm(options, slots[CHOOSE k \in 1..Len(slots) : slots[k].ident = e.key],
                              e.value))

\* The loop of visit_map, from the i-th entry on.
RECURSIVE VisitLoop(_, _, _, _, _)
VisitLoop(options, slots, entries, i, st) ==
  IF st.failed # << >> \/ i > Len(entries) THEN st
  ELSE VisitLoop(options, slots, entries, i + 1, VisitEntry(options, slots, st, entries[i]))

\* The end of visit_map with a field of an Option type that has no value
\* taken as None.
Built_defaulting(slots, st) ==
  IF st.failed # << >> THEN st.failed[1]
  ELSE IF \E k \in 1..Len(slots) :
            st.stored[slots[k].index] = << >> /\ slots[k].arm \notin { "option", "option_vec" }
       THEN MissingField(slots[CHOOSE k \in 1..Len(slots) :
                                 /\ st.stored[slots[k].index] = << >>
                                 /\ slots[k].arm \notin { "option", "option_vec" }
                                 /\ \A j \in 1..(k - 1) :
                                      \/ st.stored[slots[j].index] # << >>
                                      \/ slots[j].arm \in { "option", "option_vec" }].ident)
  ELSE Ok([ i \in 1..Len(slots) |-> IF st.stored[i] = << >> THEN << >> ELSE st.stored[i][1] ])

\* The end of visit_map: ok_or_else(missing_field) for each field in the order
\* of the lists, then the struct.
Built(slots, st) ==
  IF st.failed # << >> THEN st.failed[1]
  ELSE IF \E k \in 1..Len(slots) : st.stored[slots[k].index] = << >>
       THEN MissingField(slots[CHOOSE k \in 1..Len(slots) :
                                 /\ st.stored[slots[k].index] = << >>
                                 /\ \A j \in 1..(k - 1) : st.stored[slots[j].index] # << >>].ident)
  ELSE Ok([ i \in 1..Len(slots) |-> st.stored[i][1] ])

\* visit_map
visit_map(options, slots, entries) ==
  Built(slots, VisitLoop(options, slots, entries, 1,
                         Visiting([ i \in 1..Len(slots) |-> << >> ], << >>)))

\* The strings the entry's arm hands to decode_single.
EntryStrings(slots, e) ==
  IF \E k \in 1..Len(slots) : slots[k].ident = e.key /\ slots[k].arm # "plain"
  THEN StringsOf([shape |-> slots[CHOOSE k \in 1..Len(slots) : slots[k].ident = e.key].arm],
                 e.value)
  ELSE << >>

\* The round for the entry goes by without a call of decode_single and without
\* an error.
Quiet(slots, e) ==
  /\ EntryStrings(slots, e) = << >>
  /\ VisitEntry(SerdeHashOptions(<< >>, 0, << >>), slots,
                Visiting([ i \in 1..Len(slots) |-> << >> ], << >>), e).failed = << >>

\* visit_map gets to a call of decode_single.
Decodes(slots, entries) ==
  \E i \in 1..Len(entries) :
    /\ EntryStrings(slots, entries[i]) # << >>
    /\ \A j \in 1..(i - 1) : Quiet(slots, entries[j])

\* The generated serialize gets to a call of encode_single.
Encodes(slots, record) ==
  \E k \in 1..Len(slots) :
    /\ slots[k].arm # "plain"
    /\ NumbersOf([shape |-> slots[k].arm], record[slots[k].index]) # << >>

(***************************************************************************)
(* The process: threads calling the library                                *)
(***************************************************************************)

NumThreads == 2

Threads == 1..NumThreads

VARIABLES
  once_state,    \* the Once of HASH_OPTIONS: "incomplete", "running", "complete"
  HASH_OPTIONS,  \* the value of the cell: << >> while unset, << options >> once set
  pc,            \* per thread: "idle", "init" (running the cell's initializer),
                 \* "call" (past the cell, in the body of its call), "done" (its
                 \* call has returned), "panicked"
  call,          \* per thread: the call in progress or just returned
  options,       \* per thread: the options its last read of the cell returned
  ret,           \* per thread: the result of the call that has returned
  first_build,   \* the options of the first build() call that returned
  installs,      \* how many times a value was stored into the cell
  encoded        \* per tracked input of encode: what the first call that
                 \* returned gave back, and whether a build() had returned by then

vars == << once_state, HASH_OPTIONS, pc, call, options, ret, first_build, installs, encoded >>

NoCall == [op |-> "none", arg |-> << >>]

\* The inputs of encode whose results are followed over the life of the process.
Tracked == { << U64Of(1), U64Of(2), U64Of(3) >> }

Init ==
  /\ once_state = "incomplete"
  /\ HASH_OPTIONS = << >>
  /\ pc = [t \in Threads |-> "idle"]
  /\ call = [t \in Threads |-> NoCall]
  /\ options = [t \in Threads |-> << >>]
  /\ ret = [t \in Threads |-> NoResult]
  /\ first_build = << >>
  /\ installs = 0
  /\ encoded = [data \in Tracked |-> << >>]

\* A cell that runs the initializer again when it is already set.
OnceCall_reinit(state) ==
  CASE state = "complete"   -> "run"
    [] state = "incomplete" -> "run"
    [] state = "running"    -> "wait"

\* A cell that does not make a second caller wait for the running initializer.
OnceCall_unguarded(state) ==
  CASE state = "complete"   -> "done"
    [] state = "incomplete" -> "run"
    [] state = "running"    -> "run"

\* What a caller of the Once does for the state it finds: nothing when the
\* cell is complete, the initializer when it is the first, and it waits while
\* another thread runs the initializer.
OnceCall(state) ==
  CASE state = "complete"   -> "done"
    [] state = "incomplete" -> "run"
    [] state = "running"    -> "wait"

\* The result of a call that has read `opts` from the cell.
Result(c, opts) ==
  CASE c.op = "get_hash_options" -> Ok(opts)
    [] c.op = "encode"           -> encode(opts, c.arg)
    [] c.op = "decode"           -> decode(opts, c.arg)
    [] c.op = "encode_single"    -> encode_single(opts, c.arg)
    [] c.op = "decode_single"    -> decode_single(opts, c.arg)
    [] c.op = "serialize"        -> serialize(opts, c.arg.ty, c.arg.value)
    [] c.op = "deserialize"      -> deserialize(opts, c.arg.ty, c.arg.wire)
    [] c.op = "determine_with_path" -> Ok(determine_with_path(c.arg))
    [] c.op = "serde_hash"       -> serde_hash(c.arg)
    [] c.op = "hash_id_derive"   -> hash_id_derive(c.arg)
    [] c.op = "Serialize"        ->
         Serialize_serialize(opts, hash_id_derive(c.arg.input).val[1],
                             Slots(c.arg.input, hash_id_derive(c.arg.input).val[1]),
                             c.arg.record)
    [] c.op = "Deserialize"      ->
         visit_map(opts, Slots(c.arg.input, hash_id_derive(c.arg.input).val[1]), c.arg.entries)

\* Converters that build the HashIds before they look at the value.
ReadsOptions_eager(c) ==
  CASE c.op \in { "determine_with_path", "serde_hash", "hash_id_derive" } -> FALSE
    [] OTHER -> TRUE

\* Whether the call reaches hashids(), and with it get_hash_options().
ReadsOptions(c) ==
  CASE c.op = "serialize"   -> NumbersOf(c.arg.ty, c.arg.value) # << >>
    [] c.op = "deserialize" -> StringsOf(c.arg.ty, c.arg.wire) # << >>
    [] c.op \in { "determine_with_path", "serde_hash", "hash_id_derive" } -> FALSE
    [] c.op = "Serialize"   ->
         Encodes(Slots(c.arg.input, hash_id_derive(c.arg.input).val[1]), c.arg.record)
    [] c.op = "Deserialize" ->
         Decodes(Slots(c.arg.input, hash_id_derive(c.arg.input).val[1]), c.arg.entries)
    [] OTHER                -> TRUE

Returned(t, r) ==
  /\ ret' = [ret EXCEPT ![t] = r]
  /\ pc' = [pc EXCEPT ![t] = IF r.kind = "panic" THEN "panicked" ELSE "done"]

\* build() that stores its options whether or not the cell is set.
Build_overwrite(t, self) ==
  /\ pc[t] = "idle"
  /\ once_state # "running"
  /\ call' = [call EXCEPT ![t] = [op |-> "build", arg |-> self]]
  /\ HASH_OPTIONS' = << self >>
  /\ once_state' = "complete"
  /\ installs' = installs + 1
  /\ Returned(t, Unit)
  /\ first_build' = IF first_build = << >> THEN << self >> ELSE first_build
  /\ UNCHANGED << options, encoded >>

\* SerdeHashOptions::...::build() by thread t: HASH_OPTIONS.set(self), whose
\* result (the refusal, when the cell is already set) is dropped by `let _ =`.
Build(t, self) ==
  /\ pc[t] = "idle"
  /\ call' = [call EXCEPT ![t] = [op |-> "build", arg |-> self]]
  /\ \/ /\ OnceCall(once_state) = "done"
        /\ Returned(t, Unit)
        /\ first_build' = IF first_build = << >> THEN << self >> ELSE first_build
        /\ UNCHANGED << once_state, HASH_OPTIONS, installs >>
     \/ /\ OnceCall(once_state) = "run"
        /\ once_state' = "running"
        /\ pc' = [pc EXCEPT ![t] = "init"]
        /\ UNCHANGED << HASH_OPTIONS, ret, first_build, installs >>
  /\ UNCHANGED << options, encoded >>

\* A call of thread t that reads the options: get_hash_options, or a codec or
\* converter call, which reads them in hashids().
Read(t, c) ==
  /\ pc[t] = "idle"
  /\ ReadsOptions(c)
  /\ call' = [call EXCEPT ![t] = c]
  /\ \/ /\ OnceCall(once_state) = "done"
        /\ options' = [options EXCEPT ![t] = HASH_OPTIONS]
        /\ pc' = [pc EXCEPT ![t] = "call"]
        /\ UNCHANGED once_state
     \/ /\ OnceCall(once_state) = "run"
        /\ once_state' = "running"
        /\ pc' = [pc EXCEPT ![t] = "init"]
        /\ UNCHANGED options
  /\ UNCHANGED << HASH_OPTIONS, ret, first_build, installs, encoded >>

\* A converter call that makes no codec call (None, an empty Vec, a wire value
\* of the wrong form): the cell is not touched.
Convert(t, c) ==
  /\ pc[t] = "idle"
  /\ ~ReadsOptions(c)
  /\ call' = [call EXCEPT ![t] = c]
  /\ pc' = [pc EXCEPT ![t] = "call"]
  /\ UNCHANGED << once_state, HASH_OPTIONS, options, ret, first_build, installs, encoded >>

\* Thread t, running the initializer of set(), stores build()'s options, and
\* build returns.
InitBuild(t) ==
  /\ pc[t] = "init"
  /\ call[t].op = "build"
  /\ HASH_OPTIONS' = << call[t].arg >>
  /\ once_state' = "complete"
  /\ installs' = installs + 1
  /\ Returned(t, Unit)
  /\ first_build' = IF first_build = << >> THEN << call[t].arg >> ELSE first_build
  /\ UNCHANGED << call, options, encoded >>

\* Thread t, running the initializer of get_or_init(), stores
\* SerdeHashOptions::default(), and its call goes on with the stored options.
InitDefault(t) ==
  /\ pc[t] = "init"
  /\ call[t].op # "build"
  /\ \E salt \in generate_salt :
       /\ HASH_OPTIONS' = << SerdeHashOptionsDefault(salt) >>
       /\ options' = [options EXCEPT ![t] = HASH_OPTIONS']
  /\ once_state' = "complete"
  /\ installs' = installs + 1
  /\ pc' = [pc EXCEPT ![t] = "call"]
  /\ UNCHANGED << call, ret, first_build, encoded >>

\* The input of encode the call hands over: encode_single(data) is
\* encode(&[data]).
EncodeInput(c) == IF c.op = "encode_single" THEN << c.arg >> ELSE c.arg

\* The record of the tracked inputs after call c has returned r: the text the
\* first call of encode returned for the input, and whether a build() had
\* returned by then.
Recorded(c, r) ==
  IF c.op \in { "encode", "encode_single" } /\ r.kind = "ok" /\ EncodeInput(c) \in Tracked
  THEN [encoded EXCEPT ![EncodeInput(c)] =
          IF @ = << >> THEN << [text |-> r.val[1], built |-> first_build # << >>] >> ELSE @]
  ELSE encoded

\* The options the call of thread t works with: those it read from the cell (a
\* converter call that reads none uses none).
Observed(t) == IF options[t] = << >> THEN SerdeHashOptions(<< >>, 0, << >>) ELSE options[t][1]

\* The body of the call of thread t, with the options it holds, up to its
\* return (or its panic).
Run(t) ==
  /\ pc[t] = "call"
  /\ Returned(t, Result(call[t], Observed(t)))
  /\ encoded' = Recorded(call[t], ret'[t])
  /\ UNCHANGED << once_state, HASH_OPTIONS, call, options, first_build, installs >>

\* Thread t is done with the result of its call and is free to make another.
Finish(t) ==
  /\ pc[t] = "done"
  /\ pc' = [pc EXCEPT ![t] = "idle"]
  /\ call' = [call EXCEPT ![t] = NoCall]
  /\ ret' = [ret EXCEPT ![t] = NoResult]
  /\ UNCHANGED << once_state, HASH_OPTIONS, options, first_build, installs, encoded >>

(***************************************************************************)
(* The calls the threads make                                              *)
(***************************************************************************)

HelloWorld == << "h", "e", "l", "l", "o", " ", "w", "o", "r", "l", "d" >>

\* The options of tests/test_serialization.rs.
TestOptions == SerdeHashOptions(HelloWorld, 10, DefaultAlphabet)

\* No salt, no minimum length, sixteen characters.
HexOptions ==
  SerdeHashOptions(<< >>, 0, << "0", "1", "2", "3", "4", "5", "6", "7",
                               "8", "9", "a", "b", "c", "d", "e", "f" >>)

\* An alphabet the HashIds builder refuses.
ShortOptions == SerdeHashOptions(HelloWorld, 10, << "a", "b", "c" >>)

DefaultOptions == { SerdeHashOptionsDefault(salt) : salt \in generate_salt }

\* The options the cell can hold with an alphabet the builder accepts.
ValidOptions == { TestOptions, HexOptions } \cup DefaultOptions

\* An alphabet with a repeated character: the 62 characters and "a" again.
DupOptions == SerdeHashOptions(HelloWorld, 10, Append(DefaultAlphabet, "a"))

BuildOptions == { TestOptions, HexOptions, ShortOptions }

Valid(opts) == hashids(opts).ok

\* The sequences over V of length at most n.
SeqsUpTo(V, n) == UNION { [1..k -> V] : k \in 0..n }

MaxSeqLen == 2

SampleU64 == { U64Zero, U64Of(1), U64Of(158674), << 0, 0, 1, 0 >>, U64Max }

SampleSeqs == SeqsUpTo({ U64Zero, U64Of(5), U64Max }, MaxSeqLen) \cup { << U64Of(1), U64Of(2), U64Of(3) >> }

\* The text encode returns for data under opts (opts valid).
TokenOf(opts, data) == HashIdsEncode(hashids(opts), data)

\* Tokens that are the encoding of something under some options.
EncodedTokens ==
  { TokenOf(o, d) : o \in ValidOptions,
                    d \in { << U64Of(1) >>, << U64Of(158674) >>, << U64Max >>,
                            << U64Of(1), U64Of(2) >>, << U64Zero, U64Zero >> } }

\* A character no alphabet of the model holds.
Bang == "!"

\* Texts one edit away from k: one character replaced (by "!", or by k's
\* first character), one character more, one character less.
Tampered(k) ==
  { [k EXCEPT ![i] = Bang] : i \in 1..Len(k) }
    \cup { [k EXCEPT ![i] = k[1]] : i \in 1..Len(k) }
    \cup { Append(k, k[1]), Tail(k), << k[1] >> \o k }

SampleTokens ==
  EncodedTokens
    \cup UNION { Tampered(k) : k \in EncodedTokens }
    \cup { << >>, << Bang, Bang, Bang >>, << "a", "b" >> }

\* A token of the test options, and one of other options.
TestToken == TokenOf(TestOptions, << U64Of(158674) >>)

HexToken == TokenOf(HexOptions, << U64Of(158674) >>)

GetHashOptionsCall == [op |-> "get_hash_options", arg |-> << >>]

EncodeCall(data) == [op |-> "encode", arg |-> data]

DecodeCall(hash) == [op |-> "decode", arg |-> hash]

EncodeSingleCall(data) == [op |-> "encode_single", arg |-> data]

DecodeSingleCall(hash) == [op |-> "decode_single", arg |-> hash]

(***************************************************************************)
(* Spec: threads that configure, read and use the options concurrently     *)
(***************************************************************************)

GetHashOptions(t) == Read(t, GetHashOptionsCall)

EncodeSingle(t, V) == \E data \in V : Read(t, EncodeSingleCall(data))

DecodeSingle(t, K) == \E hash \in K : Read(t, DecodeSingleCall(hash))

Encode(t, D) == \E data \in D : Read(t, EncodeCall(data))

Decode(t, K) == \E hash \in K : Read(t, DecodeCall(hash))

Next ==
  \E t \in Threads :
    \/ \E self \in BuildOptions : Build(t, self)
    \/ GetHashOptions(t)
    \/ EncodeSingle(t, { U64Of(158674) })
    \/ DecodeSingle(t, { TestToken, HexToken })
    \/ InitBuild(t)
    \/ InitDefault(t)
    \/ Run(t)
    \/ Finish(t)

Spec == Init /\ [][Next]_vars

(***************************************************************************)
(* AlphabetSpec: two threads that install options of any alphabet and call *)
(* the codec                                                               *)
(***************************************************************************)

\* Options with an alphabet the builder refuses, and options it accepts.
AnyOptions == { ShortOptions, DupOptions, TestOptions }

AlphabetNext ==
  \E t \in { 1, 2 } :
    \/ \E self \in AnyOptions : Build(t, self)
    \/ Encode(t, { << >>, << U64Of(1), U64Of(2) >> })
    \/ Decode(t, { TestToken, << Bang, Bang, Bang >> })
    \/ EncodeSingle(t, { U64Of(158674) })
    \/ DecodeSingle(t, { TestToken })
    \/ InitBuild(t)
    \/ InitDefault(t)
    \/ Run(t)
    \/ Finish(t)

AlphabetSpec == Init /\ [][AlphabetNext]_vars

(***************************************************************************)
(* CodecSpec: one thread that configures the options, or not, and calls    *)
(* the codec on the sample inputs                                          *)
(***************************************************************************)

CodecNext ==
  \/ \E self \in BuildOptions : Build(1, self)
  \/ GetHashOptions(1)
  \/ Encode(1, SampleSeqs)
  \/ Decode(1, SampleTokens)
  \/ EncodeSingle(1, SampleU64)
  \/ DecodeSingle(1, SampleTokens)
  \/ InitBuild(1)
  \/ InitDefault(1)
  \/ Run(1)
  \/ Finish(1)

CodecSpec == Init /\ [][CodecNext]_vars

(***************************************************************************)
(* FieldSpec: one thread that configures the options, or not, and writes   *)
(* and reads hash-marked fields through the converters                     *)
(***************************************************************************)

FieldType(shape, width) == [shape |-> shape, width |-> width]

FieldTypes == { FieldType(shape, width) : shape \in Shapes, width \in Widths }

\* The largest value of the width.
MaxOf(width) ==
  CASE width = "u8"   -> Widen(<< 255, 0, 0, 0 >>)
    [] width = "u16"  -> Widen(<< Limb - 1, 0, 0, 0 >>)
    [] width = "u32"  -> Widen(<< Limb - 1, Limb - 1, 0, 0 >>)
    [] width = "u128" -> U64Max \o U64Max
    [] OTHER          -> Widen(U64Max)

\* The value is one the width can hold.
Fits(width, value) == \A i \in 1..Len(value) : value[i] <= MaxOf(width)[i]

\* 2^64 + 5
TwoTo64Plus5 == << 5, 0, 0, 0, 1, 0, 0, 0 >>

\* The value is one of 64 bits or fewer.
FitsU64(value) == SubSeq(value, 5, 8) = U64Zero

SampleNumbers(width) ==
  { Widen(U64Of(5)), MaxOf(width) }
    \cup (IF width = "u128" THEN { TwoTo64Plus5 } ELSE { })
    \cup (IF width = "u64" THEN { Widen(U64Of(158674)) } ELSE { })

MaxVecLen == 2

\* The field values of the type the thread serializes.
FieldValues(ty) ==
  LET N == SampleNumbers(ty.width)
      V == SeqsUpTo(N, MaxVecLen)
  IN  CASE ty.shape = "numeric"    -> N
        [] ty.shape = "vec"        -> V
        [] ty.shape = "option"     -> { << >> } \cup { << n >> : n \in N }
        [] ty.shape = "option_vec" -> { << >> } \cup { << v >> : v \in V }

\* The numbers behind the tokens the thread reads: 300 and 2^64 - 1 do not
\* fit every width.
WireNumbers == { U64Of(5), U64Of(300), U64Max }

Token300(opts) == TokenOf(opts, << U64Of(300) >>)

WireTokens ==
  { TokenOf(o, << n >>) : o \in ValidOptions, n \in WireNumbers }
    \cup { TokenOf(TestOptions, << U64Of(1), U64Of(2) >>), << Bang, Bang, Bang >>,
           TestToken }

\* The wire values the thread deserializes from.
WireValues ==
  { WStr(k) : k \in WireTokens }
    \cup UNION { { WSeq(q) : q \in SeqsUpTo({ WStr(TokenOf(o, << U64Of(5) >>)),
                                              WStr(Token300(o)) }, MaxVecLen) }
                 : o \in ValidOptions }
    \cup { WSeq(<< WNum(5) >>), WSeq(<< WStr(<< Bang >>) >>), WNull, WNum(5) }
    \cup { WSeq(<< WStr(TokenOf(TestOptions, << U64Of(5) >>)), WStr(<< Bang >>) >>),
           WSeq(<< WStr(TokenOf(TestOptions, << U64Of(5) >>)),
                   WStr(TokenOf(TestOptions, << U64Of(1), U64Of(2) >>)) >>) }

SerializeCall(ty, value) == [op |-> "serialize", arg |-> [ty |-> ty, value |-> value]]

DeserializeCall(ty, wire) == [op |-> "deserialize", arg |-> [ty |-> ty, wire |-> wire]]

Serialize(t) ==
  \E ty \in FieldTypes : \E value \in FieldValues(ty) :
    \/ Read(t, SerializeCall(ty, value))
    \/ Convert(t, SerializeCall(ty, value))

Deserialize(t) ==
  \E ty \in FieldTypes : \E wire \in WireValues :
    \/ Read(t, DeserializeCall(ty, wire))
    \/ Convert(t, DeserializeCall(ty, wire))

FieldNext ==
  \/ \E self \in BuildOptions : Build(1, self)
  \/ Serialize(1)
  \/ Deserialize(1)
  \/ InitBuild(1)
  \/ InitDefault(1)
  \/ Run(1)
  \/ Finish(1)

FieldSpec == Init /\ [][FieldNext]_vars

(***************************************************************************)
(* DeriveSpec: the macros expanding the items of a crate.  They run when   *)
(* the crate is compiled and touch nothing of the running process: each    *)
(* expansion is a call that returns its output.                            *)
(***************************************************************************)

\* The types of the fields: a bare name, a name with type arguments, and the
\* shapes syn tells apart from them.
Bare(name) == TypePath(FALSE, << Segment(name, "none", << >>) >>)

Generic(name, tys) ==
  TypePath(FALSE, << Segment(name, "angle", [ i \in 1..Len(tys) |-> TypeArg(tys[i]) ]) >>)

VecOf(ty) == Generic("Vec", << ty >>)

OptionOf(ty) == Generic("Option", << ty >>)

\* std::primitive::u64, std::vec::Vec<u64>, <T>::u64
Qualified(prefix, last) ==
  TypePath(FALSE, [ i \in 1..Len(prefix) |-> Segment(prefix[i], "none", << >>) ] \o << last >>)

SampleTypes ==
  { Bare(name) : name \in { "u8", "u16", "u32", "u64", "u128", "usize",
                            "i32", "i64", "f64", "bool", "String", "Vec", "Option" } }
    \cup { VecOf(Bare(name)) : name \in { "u8", "u64", "usize", "i64", "f32", "String" } }
    \cup { OptionOf(Bare(name)) : name \in { "u8", "u128", "i32", "String" } }
    \cup { OptionOf(VecOf(Bare(name))) : name \in { "u16", "u64", "f64" } }
    \cup { VecOf(VecOf(Bare("u64"))), OptionOf(OptionOf(Bare("u8"))),
           VecOf(OptionOf(Bare("u32"))), OptionOf(VecOf(VecOf(Bare("u8")))),
           OptionOf(OptionOf(VecOf(Bare("u8")))),
           Generic("Box", << Bare("u64") >>), Generic("HashSet", << Bare("u64") >>),
           Generic("Vec", << Bare("u64"), Bare("A") >>),
           TypePath(FALSE, << Segment("Vec", "angle", << OtherArg("lifetime") >>) >>),
           TypePath(FALSE, << Segment("Vec", "paren", << TypeArg(Bare("u64")) >>) >>),
           Qualified(<< "std", "primitive" >>, Segment("u64", "none", << >>)),
           Qualified(<< "std", "vec" >>, Segment("Vec", "angle", << TypeArg(Bare("u64")) >>)),
           OptionOf(Qualified(<< "core" >>, Segment("u8", "none", << >>))),
           TypePath(TRUE, << Segment("u64", "none", << >>) >>),
           TypeOther("reference", << Bare("u64") >>),
           TypeOther("tuple", << Bare("u64"), Bare("u64") >>),
           TypeOther("paren", << Bare("u64") >>),
           TypeOther("array", << Bare("u8") >>) }

\* #[hash]
HashAttribute == Attribute("hash", FALSE, << >>)

\* #[doc = "..."]
DocAttribute == Attribute("doc", FALSE, << >>)

HashMeta == Meta("path", "hash", "")

Rename(name) == Meta("name_value", "rename", name)

Alias(name) == Meta("name_value", "alias", name)

DefaultMeta == Meta("path", "default", "")

\* The attribute lists of the fields.
SampleAttrs ==
  { << >>,
    << HashAttribute >>,
    << SerdeAttribute(<< HashMeta >>) >>,
    << SerdeAttribute(<< HashMeta, Rename("user_id") >>) >>,
    << SerdeAttribute(<< HashMeta, Alias("identifier") >>) >>,
    << SerdeAttribute(<< Rename("user_name") >>) >>,
    << SerdeAttribute(<< Rename("r"), HashMeta, Alias("a"), HashMeta, DefaultMeta >>) >>,
    << DocAttribute, HashAttribute, SerdeAttribute(<< Alias("a"), DefaultMeta >>) >>,
    << SerdeAttribute(<< HashMeta >>), DocAttribute, SerdeAttribute(<< Rename("r") >>) >>,
    << HashAttribute, SerdeAttribute(<< HashMeta >>), HashAttribute >>,
    << SerdeAttribute(<< Meta("name_value", "hash", "x") >>) >>,
    << SerdeAttribute(<< Meta("list", "hash", "") >>), DocAttribute >>,
    << Attribute("serde", FALSE, << >>) >>,
    << SerdeAttribute(<< >>) >> }

\* TestData of tests/test_serialization.rs: a hash-marked id, a name and an
\* age that is a u8 without a marker.
TestData ==
  DeriveInput("TestData", "struct", "named",
              << Field("id", << SerdeAttribute(<< HashMeta >>) >>, Bare("u64")),
                 Field("name", << >>, Bare("String")),
                 Field("age", << >>, Bare("u8")) >>)

\* The items the macros are put on: structs of one field, structs of two, a
\* struct of none, and items that are not structs with named fields.
SampleItems ==
  { DeriveInput("S", "struct", "named", << Field("f", attrs, ty) >>) :
      attrs \in SampleAttrs, ty \in SampleTypes }
    \cup { DeriveInput("T", "struct", "named",
                       << Field("id", a1, t1), Field("name", a2, t2) >>) :
             a1 \in { << >>, << HashAttribute >>, << SerdeAttribute(<< HashMeta, Rename("r") >>) >> },
             t1 \in { Bare("u64"), Bare("String") },
             a2 \in { << >>, << HashAttribute >> },
             t2 \in { VecOf(Bare("u64")), Bare("f64") } }
    \cup { TestData,
           DeriveInput("U", "struct", "named", << >>),
           DeriveInput("P", "struct", "unnamed", << >>),
           DeriveInput("Q", "struct", "unit", << >>),
           DeriveInput("E", "enum", "named", << >>) }

DetermineWithPathCall(ty) == [op |-> "determine_with_path", arg |-> ty]

SerdeHashCall(input) == [op |-> "serde_hash", arg |-> input]

HashIdDeriveCall(input) == [op |-> "hash_id_derive", arg |-> input]

DetermineWithPath(t) == \E ty \in SampleTypes : Convert(t, DetermineWithPathCall(ty))

SerdeHash(t) == \E input \in SampleItems : Convert(t, SerdeHashCall(input))

HashIdDerive(t) == \E input \in SampleItems : Convert(t, HashIdDeriveCall(input))

DeriveNext ==
  \/ DetermineWithPath(1)
  \/ SerdeHash(1)
  \/ HashIdDerive(1)
  \/ Run(1)
  \/ Finish(1)

DeriveSpec == Init /\ [][DeriveNext]_vars

(***************************************************************************)
(* LegacySpec: one thread that configures the options, or not, and writes  *)
(* and reads structs through the impls derive(HashIds) has written         *)
(***************************************************************************)

\* Structs with #[hash] fields of the four shapes, and with a field without a
\* marker (declared first, written last).
Solo == DeriveInput("Solo", "struct", "named",
                    << Field("id", << HashAttribute >>, Bare("u64")) >>)

Pair == DeriveInput("Pair", "struct", "named",
                    << Field("id", << HashAttribute >>, Bare("u8")),
                       Field("parent", << HashAttribute >>, OptionOf(Bare("u64"))) >>)

Lists == DeriveInput("Lists", "struct", "named",
                     << Field("ids", << HashAttribute >>, VecOf(Bare("u32"))),
                        Field("groups", << HashAttribute >>, OptionOf(VecOf(Bare("u16")))) >>)

Named == DeriveInput("Named", "struct", "named",
                     << Field("name", << >>, Bare("String")),
                        Field("id", << HashAttribute >>, Bare("u128")) >>)

LegacyItems == { Solo, Pair, Lists, Named }

\* The shape of the type, as the type tests see it.
ShapeOf(ty) ==
  CASE is_numeric_type(ty)                -> "numeric"
    [] is_vector_of_numeric(ty)           -> "vec"
    [] is_option_of_numeric(ty)           -> "option"
    [] is_option_of_vector_of_numeric(ty) -> "option_vec"
    [] OTHER                              -> "plain"

Dan == WStr(<< "D", "a", "n" >>)

\* The values of a field of the type: the sample numbers of its width, and
\* for a vector the empty one and the one of 5 and the width's maximum.
ValuesOf(ty) ==
  LET N == SampleNumbers(NumericOf(ty))
      V == { << >>, << Widen(U64Of(5)), MaxOf(NumericOf(ty)) >> }
  IN  CASE ShapeOf(ty) = "plain"      -> { Dan }
        [] ShapeOf(ty) = "numeric"    -> N
        [] ShapeOf(ty) = "vec"        -> V
        [] ShapeOf(ty) = "option"     -> { << >> } \cup { << n >> : n \in N }
        [] ShapeOf(ty) = "option_vec" -> { << >> } \cup { << v >> : v \in V }

\* The values of the struct, from its i-th field on.
RECURSIVE RecordsFrom(_, _)
RecordsFrom(fields, i) ==
  IF i > Len(fields) THEN { << >> }
  ELSE { << v >> \o r : v \in ValuesOf(fields[i].ty), r \in RecordsFrom(fields, i + 1) }

Token5 == WStr(TokenOf(TestOptions, << U64Of(5) >>))

\* The entries a map for the struct is made of.  For the struct of one field:
\* the tokens of 5 and of 300 under the options of the tests, a text that is
\* no token, and a key the struct has no field for.
EntriesOf(input) ==
  CASE input = Solo  -> { Entry("id", Token5), Entry("id", WStr(Token300(TestOptions))),
                          Entry("id", WStr(<< Bang >>)), Entry("extra", WNum(5)) }
    [] input = Pair  -> { Entry("id", Token5), Entry("parent", Token5),
                          Entry("parent", WNull) }
    [] input = Lists -> { Entry("ids", WSeq(<< Token5, WStr(Token300(TestOptions)) >>)),
                          Entry("groups", WSeq(<< Token5 >>)), Entry("groups", WNull) }
    [] input = Named -> { Entry("name", Dan), Entry("id", Token5), Entry("extra", WNum(5)) }

MaxEntries == 3

SerializeImplCall(input, record) ==
  [op |-> "Serialize", arg |-> [input |-> input, record |-> record]]

DeserializeImplCall(input, entries) ==
  [op |-> "Deserialize", arg |-> [input |-> input, entries |-> entries]]

SerializeImpl(t) ==
  \E input \in LegacyItems : \E record \in RecordsFrom(input.fields, 1) :
    \/ Read(t, SerializeImplCall(input, record))
    \/ Convert(t, SerializeImplCall(input, record))

DeserializeImpl(t) ==
  \E input \in LegacyItems : \E entries \in SeqsUpTo(EntriesOf(input), MaxEntries) :
    \/ Read(t, DeserializeImplCall(input, entries))
    \/ Convert(t, DeserializeImplCall(input, entries))

LegacyNext ==
  \/ Build(1, TestOptions)
  \/ SerializeImpl(1)
  \/ DeserializeImpl(1)
  \/ InitBuild(1)
  \/ InitDefault(1)
  \/ Run(1)
  \/ Finish(1)

LegacySpec == Init /\ [][LegacyNext]_vars

(***************************************************************************)
(* Properties                                                              *)
(***************************************************************************)

\* The call of thread t has come to its end (returned, or panicked).
Ended(t) == pc[t] \in { "done", "panicked" }

\* C1: under valid options, encode_single(v) returns a token, and decode_single
\* of that token under the same options succeeds and returns exactly v.
C1_SingleRoundTrip ==
  \A t \in Threads :
    (call[t].op = "encode_single" /\ Ended(t) /\ Valid(options[t][1]))
      => /\ ret[t].kind = "ok"
         /\ decode_single(options[t][1], ret[t].val[1]) = Ok(call[t].arg)

\* C1 witness: encode_single(2^64 - 1) has returned a token under the options
\* of the tests, and decode_single reads 2^64 - 1 back from it.
C1_Witness ==
  \E t \in Threads :
    /\ pc[t] = "done"
    /\ call[t].op = "encode_single"
    /\ call[t].arg = U64Max
    /\ options[t] = << TestOptions >>
    /\ ret[t].kind = "ok"
    /\ decode_single(TestOptions, ret[t].val[1]) = Ok(U64Max)

\* C2: under valid options, encode(S) returns a token, and decode of that token
\* under the same options succeeds and returns S: same length, same order.
C2_SequenceRoundTrip ==
  \A t \in Threads :
    (call[t].op = "encode" /\ Ended(t) /\ Valid(options[t][1]))
      => /\ ret[t].kind = "ok"
         /\ decode(options[t][1], ret[t].val[1]) = Ok(call[t].arg)

\* C2 witness: encode([1, 2, 3]) has returned a token, and decode reads the
\* three numbers back from it in order.
C2_Witness ==
  \E t \in Threads :
    /\ pc[t] = "done"
    /\ call[t].op = "encode"
    /\ call[t].arg = << U64Of(1), U64Of(2), U64Of(3) >>
    /\ ret[t].kind = "ok"
    /\ ret[t].val[1] # << >>
    /\ decode(options[t][1], ret[t].val[1]) = Ok(<< U64Of(1), U64Of(2), U64Of(3) >>)

\* C3: once the cell holds a value no step changes it, and a build() called
\* from then on returns at once, normally, leaving the cell as it is.
C3_SetOnce ==
  [][ /\ HASH_OPTIONS # << >> => HASH_OPTIONS' = HASH_OPTIONS
      /\ \A t \in Threads :
           (HASH_OPTIONS # << >> /\ pc[t] = "idle" /\ call'[t].op = "build")
             => /\ pc'[t] = "done"
                /\ ret'[t] = Unit
                /\ UNCHANGED << once_state, installs >> ]_vars

\* C3 witness: a build() has returned normally while the cell holds other
\* options than the ones it was called with.
C3_Witness ==
  \E t \in Threads :
    /\ pc[t] = "done"
    /\ call[t].op = "build"
    /\ ret[t] = Unit
    /\ HASH_OPTIONS # << >>
    /\ HASH_OPTIONS # << call[t].arg >>

\* C4: once the first build() call has returned, the options passed to it are
\* the global options (the ones every later read of the cell returns), whatever
\* calls were made before it.
C4_FirstBuildIsGlobal == first_build # << >> => HASH_OPTIONS = first_build

\* C5: at most one value is ever installed, the cell holds a value exactly when
\* one was installed, and the options any thread has read are the one value the
\* cell holds, read after the initializer has finished.
C5_OneValue ==
  /\ installs <= 1
  /\ (installs = 1) <=> (HASH_OPTIONS # << >>)
  /\ \A t \in Threads :
       options[t] # << >> => (options[t] = HASH_OPTIONS /\ once_state = "complete")
  /\ \A t1, t2 \in Threads :
       (options[t1] # << >> /\ options[t2] # << >>) => options[t1] = options[t2]

\* C5 witness: two threads have read the options starting from the empty
\* cell, one value was installed, a default, and both hold it.
C5_Witness ==
  /\ installs = 1
  /\ HASH_OPTIONS # << >>
  /\ HASH_OPTIONS[1] \in DefaultOptions
  /\ \A t \in Threads : options[t] = HASH_OPTIONS

\* The numbers of the field value all fit the field's width.
AllFit(ty, value) ==
  \A i \in 1..Len(NumbersOf(ty, value)) : Fits(ty.width, NumbersOf(ty, value)[i])

\* C6: a Numeric, Vec-of-numeric or Option-of-numeric field whose values fit
\* its width serializes, and deserializing what was written under the same
\* options gives the field's value back.
C6_FieldRoundTrip ==
  \A t \in Threads :
    (/\ call[t].op = "serialize"
     /\ pc[t] = "done"
     /\ call[t].arg.ty.shape \in { "numeric", "vec", "option" }
     /\ AllFit(call[t].arg.ty, call[t].arg.value))
      => /\ ret[t].kind = "ok"
         /\ deserialize(Observed(t), call[t].arg.ty, ret[t].val[1]) = Ok(call[t].arg.value)

\* C7: when a numeric field is deserialized from a token that decodes to n and
\* the result is a value, the value is n.
C7_ExactOrFail ==
  \A t \in Threads :
    (/\ call[t].op = "deserialize"
     /\ pc[t] = "done"
     /\ call[t].arg.ty.shape = "numeric"
     /\ call[t].arg.wire.kind = "str"
     /\ ret[t].kind = "ok")
      => Ok(to_u64("u64", ret[t].val[1]))
           = decode_single(Observed(t), call[t].arg.wire.text)
         /\ FitsU64(ret[t].val[1])

\* C8: serializing a 128-bit field whose value is above 2^64 - 1 does not
\* return a token: it is reported as a failure.
C8_WideValueFlagged ==
  \A t \in Threads :
    (/\ call[t].op = "serialize"
     /\ pc[t] = "done"
     /\ call[t].arg.ty = FieldType("numeric", "u128")
     /\ ~FitsU64(call[t].arg.value))
      => ret[t].kind # "ok"

C10_OutsideAlphabet ==
  \A t \in Threads :
    (/\ call[t].op = "decode"
     /\ pc[t] = "done"
     /\ \E i \in 1..Len(call[t].arg) : ~Contains(options[t][1].alphabet, call[t].arg[i]))
      => ret[t] = Err

\* C10 witness: decode("!!!") has returned an error under the alphanumeric
\* alphabet of the tests.
C10_Witness ==
  \E t \in Threads :
    /\ pc[t] = "done"
    /\ call[t].op = "decode"
    /\ call[t].arg = << Bang, Bang, Bang >>
    /\ options[t] = << TestOptions >>
    /\ ret[t] = Err

\* C11: decode_single(t) returns the one number decode(t) yields when it yields
\* exactly one, and an error when decode(t) fails or yields none or several.
C11_ExactlyOne ==
  \A t \in Threads :
    (call[t].op = "decode_single" /\ pc[t] = "done")
      => IF decode(options[t][1], call[t].arg).kind = "ok"
            /\ Len(decode(options[t][1], call[t].arg).val[1]) = 1
         THEN ret[t] = Ok(decode(options[t][1], call[t].arg).val[1][1])
         ELSE ret[t] = Err

\* C11 witness: decode_single of encode([1, 2]) under the options of the tests
\* has returned an error, where decode yields the two numbers.
C11_Witness ==
  \E t \in Threads :
    /\ pc[t] = "done"
    /\ call[t].op = "decode_single"
    /\ call[t].arg = TokenOf(TestOptions, << U64Of(1), U64Of(2) >>)
    /\ options[t] = << TestOptions >>
    /\ decode(TestOptions, call[t].arg) = Ok(<< U64Of(1), U64Of(2) >>)
    /\ ret[t] = Err

C14_AlphabetClosure ==
  \A t \in Threads :
    (call[t].op = "encode" /\ pc[t] = "done")
      => /\ ret[t].kind = "ok"
         /\ \A i \in 1..Len(ret[t].val[1]) :
              Contains(options[t][1].alphabet, ret[t].val[1][i])

\* C14 witness: encode of two numbers under the sixteen-character alphabet has
\* returned a text that holds a separator.
C14_Witness ==
  \E t \in Threads :
    /\ pc[t] = "done"
    /\ call[t].op = "encode"
    /\ Len(call[t].arg) = 2
    /\ options[t] = << HexOptions >>
    /\ ret[t].kind = "ok"
    /\ \E i \in 1..Len(ret[t].val[1]) :
         Contains(hashids(HexOptions).separators, ret[t].val[1][i])

\* C15: a call of encode on an input returns the very text the first call of
\* encode on that input returned, whatever calls were made in between.
C15_SameText ==
  \A t \in Threads :
    (/\ call[t].op \in { "encode", "encode_single" }
     /\ pc[t] = "done"
     /\ EncodeInput(call[t]) \in Tracked)
      => /\ encoded[EncodeInput(call[t])] # << >>
         /\ ret[t] = Ok(encoded[EncodeInput(call[t])][1].text)

\* C15 witness: encode([1, 2, 3]) returned first when no build() had returned,
\* a build() has returned since, and a later encode([1, 2, 3]) has returned.
C15_Witness ==
  \E t \in Threads :
    /\ pc[t] = "done"
    /\ call[t].op = "encode"
    /\ call[t].arg = << U64Of(1), U64Of(2), U64Of(3) >>
    /\ encoded[call[t].arg] # << >>
    /\ ~encoded[call[t].arg][1].built
    /\ first_build # << >>

\* "qKknODM7Ej"
Token158674 == << "q", "K", "k", "n", "O", "D", "M", "7", "E", "j" >>

\* C16: under salt "hello world", min_length 10 and the 62-character alphabet,
\* a hash-marked u64 field of 158674 is written as the string "qKknODM7Ej", and
\* a u64 field read from that string is 158674.
C16_TestBasic ==
  \A t \in Threads :
    (/\ pc[t] = "done"
     /\ options[t] = << TestOptions >>
     /\ call[t].op \in { "serialize", "deserialize" }
     /\ call[t].arg.ty = FieldType("numeric", "u64"))
      => /\ (call[t].op = "serialize" /\ call[t].arg.value = Widen(U64Of(158674)))
              => ret[t] = Ok(WStr(Token158674))
         /\ (call[t].op = "deserialize" /\ call[t].arg.wire = WStr(Token158674))
              => ret[t] = Ok(Widen(U64Of(158674)))

\* C16 witness: the field of 158674 has been written under the options of the
\* tests, as a string of ten characters.
C16_Witness ==
  \E t \in Threads :
    /\ pc[t] = "done"
    /\ options[t] = << TestOptions >>
    /\ call[t].op = "serialize"
    /\ call[t].arg.ty = FieldType("numeric", "u64")
    /\ call[t].arg.value = Widen(U64Of(158674))
    /\ ret[t].kind = "ok"
    /\ Len(ret[t].val[1].text) = 10

\* C16, reading: the string "qKknODM7Ej" has been read into a u64 field under
\* the options of the tests.
C16_ReadWitness ==
  \E t \in Threads :
    /\ pc[t] = "done"
    /\ options[t] = << TestOptions >>
    /\ call[t].op = "deserialize"
    /\ call[t].arg.ty = FieldType("numeric", "u64")
    /\ call[t].arg.wire = WStr(Token158674)
    /\ ret[t].kind = "ok"

\* The four shapes, as types: the six bare names, and Vec<T>, Option<T> and
\* Option<Vec<T>> over them.
NumericNames == { "u8", "u16", "u32", "u64", "u128", "usize" }

NumericShape == { Bare(name) : name \in NumericNames }

SequenceShape == { VecOf(ty) : ty \in NumericShape }

OptionalShape == { OptionOf(ty) : ty \in NumericShape }

OptionalSequenceShape == { OptionOf(ty) : ty \in SequenceShape }

\* How many of the four type tests the type passes.
TestsPassed(ty) ==
  (IF is_numeric_type(ty) THEN 1 ELSE 0) + (IF is_vector_of_numeric(ty) THEN 1 ELSE 0)
    + (IF is_option_of_numeric(ty) THEN 1 ELSE 0)
    + (IF is_option_of_vector_of_numeric(ty) THEN 1 ELSE 0)

Unsupported(ty) ==
  ty \notin (NumericShape \cup SequenceShape \cup OptionalShape \cup OptionalSequenceShape)

\* The field carries a hash marker: a standalone #[hash], or `hash` inside a
\* #[serde(...)].
Marked(field) ==
  \E i \in 1..Len(field.attrs) :
    \/ field.attrs[i].path = "hash"
    \/ /\ field.attrs[i].path = "serde"
       /\ field.attrs[i].parses
       /\ \E k \in 1..Len(field.attrs[i].metas) : field.attrs[i].metas[k] = HashMeta

\* The field is marked for the macro of the call: the derive knows the
\* standalone #[hash] only.
MarkedFor(op, field) ==
  IF op = "hash_id_derive"
  THEN \E i \in 1..Len(field.attrs) : field.attrs[i] = HashAttribute
  ELSE Marked(field)

\* The error names the field, and its type: in the tokens its message holds the
\* text of, or as the place it is reported at.
NamesFieldAndType(error, field) ==
  /\ error.field = field.ident
  /\ \/ error.at = "type" /\ error.span_ty = field.ty
     \/ error.tokens # << >> /\ error.tokens[1].ty = field.ty

\* C18: when a struct has a hash-marked field whose type is none of the four
\* shapes, the macro (the attribute macro, and the derive) returns compile
\* errors only, no item and no impls, and one of them names such a field and
\* its type.
C18_ClassificationError ==
  \A t \in Threads :
    (/\ call[t].op \in { "serde_hash", "hash_id_derive" }
     /\ pc[t] = "done"
     /\ call[t].arg.data = "struct"
     /\ call[t].arg.fields_kind = "named"
     /\ \E i \in 1..Len(call[t].arg.fields) :
          MarkedFor(call[t].op, call[t].arg.fields[i]) /\ Unsupported(call[t].arg.fields[i].ty))
      => /\ ret[t].kind = "compile_error"
         /\ \E i \in 1..Len(call[t].arg.fields), e \in 1..Len(ret[t].val) :
              /\ MarkedFor(call[t].op, call[t].arg.fields[i])
              /\ Unsupported(call[t].arg.fields[i].ty)
              /\ NamesFieldAndType(ret[t].val[e], call[t].arg.fields[i])

\* C18 witness: the attribute macro has refused a struct whose hash-marked
\* field is an f64.
C18_Witness ==
  \E t \in Threads :
    /\ pc[t] = "done"
    /\ call[t].op = "serde_hash"
    /\ Len(call[t].arg.fields) = 2
    /\ call[t].arg.fields[2] = Field("name", << HashAttribute >>, Bare("f64"))
    /\ ret[t].kind = "compile_error"

\* C18, the derive: it has refused a struct whose #[hash] field is a String.
C18_DeriveWitness ==
  \E t \in Threads :
    /\ pc[t] = "done"
    /\ call[t].op = "hash_id_derive"
    /\ Len(call[t].arg.fields) = 1
    /\ call[t].arg.fields[1].ty = Bare("String")
    /\ call[t].arg.fields[1].attrs = << HashAttribute >>
    /\ ret[t].kind = "compile_error"

\* C19: the attribute macro returns a struct none of whose fields is marked as
\* it is, and in the struct it returns every field without a marker is the
\* field as written (its type, its attributes), whatever its type.
C19_Passthrough ==
  \A t \in Threads :
    (/\ call[t].op = "serde_hash"
     /\ pc[t] = "done"
     /\ call[t].arg.data = "struct"
     /\ call[t].arg.fields_kind = "named")
      => /\ (\A i \in 1..Len(call[t].arg.fields) : ~Marked(call[t].arg.fields[i]))
              => ret[t] = Ok(call[t].arg)
         /\ ret[t].kind = "ok"
              => /\ Len(ret[t].val[1].fields) = Len(call[t].arg.fields)
                 /\ \A i \in 1..Len(call[t].arg.fields) :
                      ~Marked(call[t].arg.fields[i])
                        => ret[t].val[1].fields[i] = call[t].arg.fields[i]

\* C19 witness: the macro has returned TestData with its age, a u8 without a
\* marker, as written, next to the id it has given a converter.
C19_Witness ==
  \E t \in Threads :
    /\ pc[t] = "done"
    /\ call[t].op = "serde_hash"
    /\ ret[t].kind = "ok"
    /\ Len(call[t].arg.fields) = 3
    /\ call[t].arg.fields[3] = Field("age", << >>, Bare("u8"))
    /\ ret[t].val[1].fields[3] = Field("age", << >>, Bare("u8"))
    /\ ret[t].val[1].fields[1].attrs = << WithAttribute("serde_hash::serde_impl::numeric") >>

\* What an attribute list says, item by item and in order: an attribute that
\* is not a #[serde(...)] list as it is, the items of one that is, each by
\* itself.
RECURSIVE Items(_)
Items(attrs) ==
  IF attrs = << >> THEN << >>
  ELSE (IF Head(attrs).path = "serde" /\ Head(attrs).parses
        THEN [ k \in 1..Len(Head(attrs).metas) |->
                 Attribute("serde", TRUE, << Head(attrs).metas[k] >>) ]
        ELSE << Head(attrs) >>)
       \o Items(Tail(attrs))

\* The item is a hash marker.
IsMarker(item) == item = HashAttribute \/ item = SerdeAttribute(<< HashMeta >>)

\* The converter of the shape the type has.
ConverterOf(ty) ==
  CASE ty \in NumericShape -> "serde_hash::serde_impl::numeric"
    [] ty \in SequenceShape -> "serde_hash::serde_impl::vec_numeric"
    [] ty \in OptionalShape -> "serde_hash::serde_impl::option_numeric"
    [] ty \in OptionalSequenceShape -> "serde_hash::serde_impl::option_vec_numeric"

\* C20: in the struct the attribute macro returns, a hash-marked field has its
\* name and type, no hash marker, every other attribute and serde item it had,
\* unchanged and in their order, and behind them one `with` item, the converter
\* of its shape.
C20_MarkerReplaced ==
  \A t \in Threads :
    (call[t].op = "serde_hash" /\ pc[t] = "done" /\ ret[t].kind = "ok")
      => \A i \in 1..Len(call[t].arg.fields) :
           Marked(call[t].arg.fields[i])
             => /\ ret[t].val[1].fields[i].ident = call[t].arg.fields[i].ident
                /\ ret[t].val[1].fields[i].ty = call[t].arg.fields[i].ty
                /\ ~Marked(ret[t].val[1].fields[i])
                /\ Items(ret[t].val[1].fields[i].attrs)
                     = SelectSeq(Items(call[t].arg.fields[i].attrs), LAMBDA a : ~IsMarker(a))
                         \o << WithAttribute(ConverterOf(call[t].arg.fields[i].ty)) >>

\* C20 witness: the macro has returned a struct whose field came with
\* #[serde(rename, hash, alias, hash, default)], now without the two markers
\* and with a converter.
C20_Witness ==
  \E t \in Threads :
    /\ pc[t] = "done"
    /\ call[t].op = "serde_hash"
    /\ ret[t].kind = "ok"
    /\ Len(call[t].arg.fields) = 1
    /\ call[t].arg.fields[1].attrs
         = << SerdeAttribute(<< Rename("r"), HashMeta, Alias("a"), HashMeta, DefaultMeta >>) >>
    /\ ret[t].val[1].fields[1].attrs
         = << SerdeAttribute(<< Rename("r"), Alias("a"), DefaultMeta >>),
              WithAttribute(determine_with_path(call[t].arg.fields[1].ty)[1]) >>

\* C21: a Numeric field that is written is written as a string, never as a bare
\* number, and for a value of 64 bits or fewer the string is the token
\* encode_single returns for the value; a Numeric field is read from a string
\* only, and the read fails when decode_single of the string fails (the text
\* does not decode, or decodes to no number or to several).
C21_NumericAsToken ==
  \A t \in Threads :
    (/\ pc[t] = "done"
     /\ call[t].op \in { "serialize", "deserialize" }
     /\ call[t].arg.ty.shape = "numeric")
      => /\ call[t].op = "serialize"
              => /\ ret[t].kind = "ok"
                 /\ ret[t].val[1].kind = "str"
                 /\ FitsU64(call[t].arg.value)
                      => Ok(ret[t].val[1].text)
                           = encode_single(Observed(t), SubSeq(call[t].arg.value, 1, 4))
         /\ (call[t].op = "deserialize" /\ call[t].arg.wire.kind # "str")
              => ret[t] = Err
         /\ (call[t].op = "deserialize" /\ call[t].arg.wire.kind = "str"
               /\ decode_single(Observed(t), call[t].arg.wire.text) = Err)
              => ret[t] = Err

\* C21 witness: a Numeric field has been read from the token of the two
\* numbers 1 and 2 under the options of the tests, and the read has failed.
C21_Witness ==
  \E t \in Threads :
    /\ pc[t] = "done"
    /\ call[t].op = "deserialize"
    /\ call[t].arg.ty.shape = "numeric"
    /\ options[t] = << TestOptions >>
    /\ call[t].arg.wire = WStr(TokenOf(TestOptions, << U64Of(1), U64Of(2) >>))
    /\ decode(TestOptions, call[t].arg.wire.text) = Ok(<< U64Of(1), U64Of(2) >>)
    /\ ret[t] = Err

\* C21, writing: a Numeric field has been written as a string.
C21_WriteWitness ==
  \E t \in Threads :
    /\ pc[t] = "done"
    /\ call[t].op = "serialize"
    /\ call[t].arg.ty = FieldType("numeric", "u32")
    /\ ret[t].kind = "ok"
    /\ ret[t].val[1].kind = "str"
    /\ ret[t].val[1].text # << >>

\* C21, a bare number on the wire: the read of a Numeric field has failed.
C21_NumberWitness ==
  \E t \in Threads :
    /\ pc[t] = "done"
    /\ call[t].op = "deserialize"
    /\ call[t].arg.ty.shape = "numeric"
    /\ call[t].arg.wire = WNum(5)
    /\ ret[t] = Err

\* The wire value is a sequence of strings.
Strings(wire) ==
  wire.kind = "seq" /\ \A i \in 1..Len(wire.items) : wire.items[i].kind = "str"

\* C22: a Vec-of-numeric field of n values is written as a sequence of n
\* strings, the i-th being the token encode_single returns for the i-th value
\* (for a value of 64 bits or fewer); read from n strings that all decode, it
\* is n values, the i-th being the number of the i-th string when that number
\* fits the field's width; and when one of the strings does not decode the read
\* fails.
C22_ElementWise ==
  \A t \in Threads :
    (/\ pc[t] = "done"
     /\ call[t].op \in { "serialize", "deserialize" }
     /\ call[t].arg.ty.shape = "vec")
      => /\ call[t].op = "serialize"
              => /\ ret[t].kind = "ok"
                 /\ Strings(ret[t].val[1])
                 /\ Len(ret[t].val[1].items) = Len(call[t].arg.value)
                 /\ \A i \in 1..Len(call[t].arg.value) :
                      FitsU64(call[t].arg.value[i])
                        => Ok(ret[t].val[1].items[i].text)
                             = encode_single(Observed(t), SubSeq(call[t].arg.value[i], 1, 4))
         /\ (call[t].op = "deserialize" /\ Strings(call[t].arg.wire))
              => IF \E i \in 1..Len(call[t].arg.wire.items) :
                      decode_single(Observed(t), call[t].arg.wire.items[i].text) = Err
                 THEN ret[t] = Err
                 ELSE /\ ret[t].kind = "ok"
                      /\ Len(ret[t].val[1]) = Len(call[t].arg.wire.items)
                      /\ \A i \in 1..Len(call[t].arg.wire.items) :
                           Fits(call[t].arg.ty.width,
                                Widen(decode_single(Observed(t),
                                                    call[t].arg.wire.items[i].text).val[1]))
                             => ret[t].val[1][i]
                                  = Widen(decode_single(Observed(t),
                                                        call[t].arg.wire.items[i].text).val[1])

\* C22 witness: a Vec-of-numeric field has been read from two strings of which
\* the first decodes and the second does not, and the read has failed.
C22_Witness ==
  \E t \in Threads :
    /\ pc[t] = "done"
    /\ call[t].op = "deserialize"
    /\ call[t].arg.ty.shape = "vec"
    /\ Strings(call[t].arg.wire)
    /\ Len(call[t].arg.wire.items) = 2
    /\ decode_single(Observed(t), call[t].arg.wire.items[1].text).kind = "ok"
    /\ decode_single(Observed(t), call[t].arg.wire.items[2].text) = Err
    /\ ret[t] = Err

\* C22, all strings decoding: a Vec-of-numeric field has been read from the
\* tokens of 5 and 300, in that order, as the values 5 and 300.
C22_OrderWitness ==
  \E t \in Threads :
    /\ pc[t] = "done"
    /\ call[t].op = "deserialize"
    /\ call[t].arg.ty = FieldType("vec", "u64")
    /\ ret[t] = Ok(<< Widen(U64Of(5)), Widen(U64Of(300)) >>)

\* C22, writing: a Vec-of-numeric field of two values has been written as two
\* strings.
C22_WriteWitness ==
  \E t \in Threads :
    /\ pc[t] = "done"
    /\ call[t].op = "serialize"
    /\ call[t].arg.ty.shape = "vec"
    /\ Len(call[t].arg.value) = 2
    /\ ret[t].kind = "ok"
    /\ Len(ret[t].val[1].items) = 2

\* The call is a converter call on an optional field.
Optional(c) ==
  c.op \in { "serialize", "deserialize" } /\ c.arg.ty.shape \in { "option", "option_vec" }

\* The call writes None, or reads null.
Absent(c) ==
  /\ Optional(c)
  /\ IF c.op = "serialize" THEN c.arg.value = << >> ELSE c.arg.wire.kind = "null"

\* The type inside the Option.
Inner(ty) == FieldType(IF ty.shape = "option" THEN "numeric" ELSE "vec", ty.width)

\* C23: on an Option field, writing None and reading null start without a read
\* of the options cell, return null and None, and leave the cell as it was
\* (unset, if it was unset); writing Some(v) returns what the converter of the
\* inner type returns for v, and reading a value that is not null returns Some
\* of what the converter of the inner type reads, or its failure.
C23_AbsentIsNull ==
  [][ \A t \in Threads :
        /\ (pc[t] = "idle" /\ Absent(call'[t]))
             => /\ pc'[t] = "call"
                /\ UNCHANGED << once_state, HASH_OPTIONS, installs, options >>
        /\ (pc[t] = "call" /\ pc'[t] # "call" /\ Absent(call[t]))
             => /\ ret'[t] = IF call[t].op = "serialize" THEN Ok(WNull) ELSE Ok(<< >>)
                /\ UNCHANGED << once_state, HASH_OPTIONS, installs, options >>
        /\ (pc[t] = "call" /\ pc'[t] # "call" /\ Optional(call[t]) /\ ~Absent(call[t]))
             => ret'[t] = IF call[t].op = "serialize"
                          THEN serialize(Observed(t), Inner(call[t].arg.ty), call[t].arg.value[1])
                          ELSE SomeOf(deserialize(Observed(t), Inner(call[t].arg.ty),
                                                  call[t].arg.wire)) ]_vars

\* C23 witness: None has been written as null and the options cell is still
\* unset, no value having been stored in it.
C23_Witness ==
  \E t \in Threads :
    /\ pc[t] = "done"
    /\ call[t].op = "serialize"
    /\ call[t].arg.ty.shape = "option"
    /\ call[t].arg.value = << >>
    /\ ret[t] = Ok(WNull)
    /\ HASH_OPTIONS = << >>
    /\ installs = 0

\* C23, reading: null has been read as None into an Option<Vec<_>> field and
\* the options cell is still unset.
C23_ReadWitness ==
  \E t \in Threads :
    /\ pc[t] = "done"
    /\ call[t].op = "deserialize"
    /\ call[t].arg.ty.shape = "option_vec"
    /\ call[t].arg.wire.kind = "null"
    /\ ret[t] = Ok(<< >>)
    /\ HASH_OPTIONS = << >>

\* C23, a present value: Some(v) has been written as a string.
C23_PresentWitness ==
  \E t \in Threads :
    /\ pc[t] = "done"
    /\ call[t].op = "serialize"
    /\ call[t].arg.ty.shape = "option"
    /\ call[t].arg.value # << >>
    /\ ret[t].kind = "ok"
    /\ ret[t].val[1].kind = "str"

\* The cell holds options whose alphabet the builder refuses.
Poisoned == HASH_OPTIONS # << >> /\ ~Valid(HASH_OPTIONS[1])

\* The call goes through hashids().
CodecCall(c) == c.op \in { "encode", "decode", "encode_single", "decode_single" }

\* C24: the initializer of build() stores the options it was given whatever
\* their alphabet, and build returns normally; once the cell holds options with
\* an alphabet the builder refuses (fewer than 16 characters, or a repeated
\* character) it holds them for good, every codec call that starts from then on
\* gets these options, and every codec call that has them ends in a panic,
\* never in a returned value or error.
C24_InvalidAlphabetPanics ==
  [][ /\ (HASH_OPTIONS' # HASH_OPTIONS \/ \E t \in Threads : pc[t] = "idle" /\ CodecCall(call'[t]))
           => (Poisoned
                 => /\ HASH_OPTIONS' = HASH_OPTIONS
                    /\ \A t \in Threads :
                         (pc[t] = "idle" /\ CodecCall(call'[t]))
                           => /\ pc'[t] = "call"
                              /\ options'[t] = HASH_OPTIONS)
      /\ \A t \in Threads :
           /\ (pc[t] = "init" /\ call[t].op = "build" /\ pc'[t] # "init")
                => /\ HASH_OPTIONS' = << call[t].arg >>
                   /\ pc'[t] = "done"
                   /\ ret'[t] = Unit
           /\ (pc[t] = "call" /\ pc'[t] # "call" /\ CodecCall(call[t])
                 /\ ~Valid(Observed(t)))
                => /\ pc'[t] = "panicked"
                   /\ ret'[t] = Panic ]_vars

\* C24 witness: the cell holds the options with the three-character alphabet,
\* a build() that stored them has returned normally, and encode and decode,
\* called by two threads, have both panicked.
C24_Witness ==
  /\ HASH_OPTIONS = << ShortOptions >>
  /\ first_build = << ShortOptions >>
  /\ \E t1, t2 \in Threads :
       /\ pc[t1] = "panicked" /\ call[t1].op = "encode" /\ ret[t1] = Panic
       /\ pc[t2] = "panicked" /\ call[t2].op = "decode" /\ ret[t2] = Panic

\* C24, a repeated character: the cell holds the options whose alphabet has
\* "a" twice, and a codec call has panicked.
C24_DupWitness ==
  /\ HASH_OPTIONS = << DupOptions >>
  /\ \E t \in Threads : pc[t] = "panicked" /\ CodecCall(call[t])

\* The fields of the struct of a call of the generated impls, as the impls
\* handle them.
SlotsOf(c) == Slots(c.arg.input, hash_id_derive(c.arg.input).val[1])

\* The entry's key is the name of a field.
Known(slots, e) == \E k \in 1..Len(slots) : slots[k].ident = e.key

\* The names of the fields no entry has the key of.
Lacking(slots, entries) ==
  { slots[k].ident : k \in 1..Len(slots) } \ { entries[i].key : i \in 1..Len(entries) }

\* What the arm of the entry's key reads from the entry's value.
Taken(opts, slots, e) ==
  deserialize_arm(opts, slots[CHOOSE k \in 1..Len(slots) : slots[k].ident = e.key], e.value)

\* Every entry with the name of a field has a value the field's arm reads.
AllTaken(opts, slots, entries) ==
  \A i \in 1..Len(entries) :
    Known(slots, entries[i]) => Taken(opts, slots, entries[i]).kind = "ok"

\* The value of the last entry with the key.
LastValue(entries, key) ==
  entries[CHOOSE i \in 1..Len(entries) :
            entries[i].key = key /\ \A j \in (i + 1)..Len(entries) : entries[j].key # key].value

\* What C25 says of a map read into a struct with result r.
MissingFieldRule(opts, slots, entries, r) ==
  /\ Lacking(slots, entries) # { } => r.kind = "err"
  /\ (Lacking(slots, entries) # { } /\ AllTaken(opts, slots, entries))
       => /\ r.val # << >>
          /\ r.val[1] = "missing_field"
          /\ r.val[2] \in Lacking(slots, entries)
  /\ r = visit_map(opts, slots, SelectSeq(entries, LAMBDA e : Known(slots, e)))

\* C25: when a map is read into a struct through the impl derive(HashIds) has
\* written and the key of a field is not in the map, the read fails, whether the
\* field is an Option or not, and with the missing-field error for such a field
\* when nothing else went wrong before; and the read of a map returns what the
\* read of the map without the entries of unknown keys returns.
C25_MissingField ==
  \A t \in Threads :
    (call[t].op = "Deserialize" /\ pc[t] = "done")
      => MissingFieldRule(Observed(t), SlotsOf(call[t]), call[t].arg.entries, ret[t])

\* C25 witness: a struct of a u8 `id` and an Option<u64> `parent`, both
\* hash-marked, has been read from a map with a token for `id` and no entry for
\* `parent`, and the missing-field error for `parent` has come back.
C25_Witness ==
  \E t \in Threads :
    /\ pc[t] = "done"
    /\ call[t].op = "Deserialize"
    /\ call[t].arg.input = Pair
    /\ options[t] = << TestOptions >>
    /\ call[t].arg.entries = << Entry("id", Token5) >>
    /\ ret[t] = MissingField("parent")

\* C25, unknown keys: a struct has been read from a map that holds an entry of
\* an unknown key in front of the entry of its field.
C25_UnknownWitness ==
  \E t \in Threads :
    /\ pc[t] = "done"
    /\ call[t].op = "Deserialize"
    /\ call[t].arg.input = Solo
    /\ call[t].arg.entries = << Entry("extra", WNum(5)), Entry("id", Token5) >>
    /\ ret[t] = Ok(<< Widen(U64Of(5)) >>)

\* What C26 says of a map read into a struct with result r.
LastWinsRule(opts, slots, entries, r) ==
  /\ (r.kind = "err" /\ r.val # << >>) => r.val[1] # "duplicate_field"
  /\ IF ~AllTaken(opts, slots, entries) THEN r.kind = "err"
     ELSE Lacking(slots, entries) = { }
            => /\ r.kind = "ok"
               /\ \A k \in 1..Len(slots) :
                    Ok(r.val[1][slots[k].index])
                      = deserialize_arm(opts, slots[k], LastValue(entries, slots[k].ident))

\* C26: a map read through the impl derive(HashIds) has written never gives a
\* duplicate-field error; when every field has an entry and every entry of a
\* field can be read, the read succeeds, however often a key comes, and each
\* field has the value read from the last entry with its key; and when an
\* entry of a field cannot be read, also one followed by another entry with
\* the same key, the read fails.
C26_LastWins ==
  \A t \in Threads :
    (call[t].op = "Deserialize" /\ pc[t] = "done")
      => LastWinsRule(Observed(t), SlotsOf(call[t]), call[t].arg.entries, ret[t])

\* C26 witness: a struct of one u64 field `id` has been read from a map with
\* the token of 5 and then the token of 300 for `id`, and its id is 300.
C26_Witness ==
  \E t \in Threads :
    /\ pc[t] = "done"
    /\ call[t].op = "Deserialize"
    /\ call[t].arg.input = Solo
    /\ options[t] = << TestOptions >>
    /\ call[t].arg.entries = << Entry("id", Token5), Entry("id", WStr(Token300(TestOptions))) >>
    /\ ret[t] = Ok(<< Widen(U64Of(300)) >>)

\* C26, an earlier entry that cannot be read: the map holds a text that is no
\* token and then the token of 5 for `id`, and the read has failed.
C26_EarlierFailsWitness ==
  \E t \in Threads :
    /\ pc[t] = "done"
    /\ call[t].op = "Deserialize"
    /\ call[t].arg.input = Solo
    /\ options[t] = << TestOptions >>
    /\ call[t].arg.entries = << Entry("id", WStr(<< Bang >>)), Entry("id", Token5) >>
    /\ ret[t] = Err

\* What C27 says of the entry written for a hash-marked field with the value.
SameAsConverter(opts, slot, value, e) ==
  LET read == deserialize_arm(opts, slot, e.value)
  IN  /\ e.key = slot.ident
      /\ serialize(opts, FieldType(slot.arm, slot.of), value) = Ok(e.value)
      /\ read.kind = "ok"
      /\ deserialize(opts, FieldType(slot.arm, slot.of), e.value) = read

\* C27: for every hash-marked field of a struct written through the impl
\* derive(HashIds) has written, the entry's value is the wire value the
\* converter #[serde_hash] names for the field's shape returns for the field's
\* value under the same options (a string, a sequence of strings, null), and
\* the converter and the arm of the generated visit_map both read that wire
\* value, to the same value.
C27_SameWire ==
  \A t \in Threads :
    (call[t].op = "Serialize" /\ pc[t] = "done")
      => LET slots == SlotsOf(call[t])
         IN  /\ ret[t].kind = "ok"
             /\ \A k \in 1..Len(slots) :
                  slots[k].arm # "plain"
                    => SameAsConverter(Observed(t), slots[k],
                                       call[t].arg.record[slots[k].index],
                                       ret[t].val[1].entries[k])

\* C27 witness: a struct with a Vec<u32> of two values and an Option<Vec<u16>>
\* that is None has been written under the options of the tests, as a sequence
\* of two strings and null.
C27_Witness ==
  \E t \in Threads :
    /\ pc[t] = "done"
    /\ call[t].op = "Serialize"
    /\ call[t].arg.input = Lists
    /\ options[t] = << TestOptions >>
    /\ Len(call[t].arg.record[1]) = 2
    /\ call[t].arg.record[2] = << >>
    /\ ret[t].kind = "ok"
    /\ Len(ret[t].val[1].entries[1].value.items) = 2
    /\ ret[t].val[1].entries[2].value = WNull

\* C27, the other two shapes: a struct with a u8 and an Option<u64> that is
\* Some has been written as two strings.
C27_OptionWitness ==
  \E t \in Threads :
    /\ pc[t] = "done"
    /\ call[t].op = "Serialize"
    /\ call[t].arg.input = Pair
    /\ call[t].arg.record[2] # << >>
    /\ ret[t].kind = "ok"
    /\ ret[t].val[1].entries[1].value.kind = "str"
    /\ ret[t].val[1].entries[2].value.kind = "str"

====
